---- MODULE Spec2Model ----
(***************************************************************************)
(* Model of the spherical-harmonic contact engine of USER-SPHERHARM:       *)
(* PairSH (coeff, init_one, compute, refine_cap_angle, calc_force_torque)  *)
(* and AtomVecSpherharm (process_args, check_contact).                     *)
(*                                                                         *)
(* Doubles are modelled as exact extended rationals <<n, d>> with d >= 0:  *)
(* d > 0 is the finite value n/d in lowest terms, <<1,0>> and <<-1,0>> are *)
(* +Inf and -Inf, <<0,0>> is NaN.  Rounding is not modelled.               *)
(***************************************************************************)
EXTENDS Integers, Sequences, FiniteSets, TLC

----------------------------------------------------------------------------
(* Bounds of the model *)

\* coordinates of the atom centres are drawn from 1..MaxCoord
MaxCoord == 3
\* maxrad_byshape entries are drawn from 1..MaxRad (1 and MaxRad in compute)
MaxRad == 2
\* stiffness values given to pair_coeff are drawn from 1..MaxK
MaxK == 2
\* number of pair_coeff commands in one run
MaxCoeffCalls == 3
\* distances handed to check_contact are drawn from 0..MaxDist
MaxDist == 4
\* read_sh_coeffs is given files of at most MaxRecords records
MaxRecords == 2
\* the coefficient layout is examined for the degrees 0..MaxLayoutDegree
MaxLayoutDegree == 5
\* the Legendre routines are called with degrees and orders up to
\* MaxLegendreDegree (and with some outside their domain)
MaxLegendreDegree == 3
\* the stencil extends at most MaxStencil bins in each direction
MaxStencil == 1
\* ComputeShcoeff::read_coeffs is followed until MaxOverflow data lines have
\* been stored beyond the capacity of a row
MaxOverflow == 2
\* the oracle loops are followed for expansions of degree 0..MaxBufferDegree
MaxBufferDegree == 5

(* Program constants, scaled down *)

\* PairSH::num_pole_quad (30 in the source): Gauss nodes on the cap
num_pole_quad == 2
\* AtomVecSpherharm::maxshexpan (20 in the source): highest degree
maxshexpan == 2

----------------------------------------------------------------------------
(* Extended rational arithmetic standing for IEEE doubles *)

Abs(n) == IF n < 0 THEN -n ELSE n

Sign(n) == IF n < 0 THEN -1 ELSE IF n > 0 THEN 1 ELSE 0

RECURSIVE Gcd(_, _)
Gcd(a, b) == IF b = 0 THEN a ELSE Gcd(b, a % b)

Norm(n, d) ==
    IF d = 0 THEN <<Sign(n), 0>>
    ELSE LET g == Gcd(Abs(n), Abs(d))
             s == IF d < 0 THEN -1 ELSE 1
         IN  <<(s * n) \div g, (s * d) \div g>>

R(n) == <<n, 1>>

NaN == <<0, 0>>

IsNaN(a) == a = NaN

IsFinite(a) == a[2] > 0

RAdd(a, b) ==
    IF a[2] = 0 /\ b[2] = 0
    THEN (IF a[1] = b[1] THEN a ELSE NaN)
    ELSE Norm(a[1] * b[2] + b[1] * a[2], a[2] * b[2])

RNeg(a) == <<-a[1], a[2]>>

RSub(a, b) == RAdd(a, RNeg(b))

RMul(a, b) == Norm(a[1] * b[1], a[2] * b[2])

RInv(a) == Norm(a[2], a[1])

RDiv(a, b) == RMul(a, RInv(b))

\* a < b as the hardware compares doubles: false when either is NaN
RLess(a, b) ==
    IF IsNaN(a) \/ IsNaN(b) THEN FALSE
    ELSE IF a[2] = 0 /\ b[2] = 0 THEN a[1] < b[1]
    ELSE a[1] * b[2] < b[1] * a[2]

RLeq(a, b) ==
    IF IsNaN(a) \/ IsNaN(b) THEN FALSE ELSE a = b \/ RLess(a, b)

\* std::pow(a, k) for an integer exponent k (pow(x, 0) is 1 for every x)
RECURSIVE RPow(_, _)
RPow(a, k) ==
    IF k = 0 THEN R(1)
    ELSE IF k < 0 THEN RInv(RPow(a, -k))
    ELSE RMul(a, RPow(a, k - 1))

----------------------------------------------------------------------------
(* MathExtra 3-vectors of doubles *)

V3(a, b, c) == <<R(a), R(b), R(c)>>

zero3 == V3(0, 0, 0)

add3(u, v) == <<RAdd(u[1], v[1]), RAdd(u[2], v[2]), RAdd(u[3], v[3])>>

sub3(u, v) == <<RSub(u[1], v[1]), RSub(u[2], v[2]), RSub(u[3], v[3])>>

scale3(s, v) == <<RMul(s, v[1]), RMul(s, v[2]), RMul(s, v[3])>>

negate3(v) == <<RNeg(v[1]), RNeg(v[2]), RNeg(v[3])>>

cross3(u, v) ==
    << RSub(RMul(u[2], v[3]), RMul(u[3], v[2])),
       RSub(RMul(u[3], v[1]), RMul(u[1], v[3])),
       RSub(RMul(u[1], v[2]), RMul(u[2], v[1])) >>

lensq3(v) == RAdd(RAdd(RMul(v[1], v[1]), RMul(v[2], v[2])), RMul(v[3], v[3]))

IsFinite3(v) == IsFinite(v[1]) /\ IsFinite(v[2]) /\ IsFinite(v[3])

----------------------------------------------------------------------------
(* State *)

VARIABLES
    \* host arrays (atom->x, atom->f, atom->torque), neighbour list, newton flag
    x, f, torque, firstneigh, newton_pair,
    \* atom->maxrad_byshape as PairSH sees it
    max_rad,
    \* PairSH members set by pair_coeff / init_one
    exponent, normal_coeffs, setflag, cut, matchtypes, typetosh, inited,
    \* the pair_coeff commands so far: their number, the stiffness last given
    \* for each type pair
    ncoeff, coeff_k,
    \* the exponents given to the pair_coeff commands that returned
    coeff_exps,
    \* PairSH::compute: position and locals
    pc, ii, jj, delvec, kk_count, candidates_found, vol_overlap, iforce, torsum,
    fpair, pn, pen_types, xcont,
    \* torsum as it is after line 1734 (the torque on particle a)
    tor_a,
    \* PairSH::refine_cap_angle: loop position (kk is kept after the return
    \* until calc_force_torque has run) and the rings scanned without a contact
    kk, ll, rings_missed,
    \* PairSH::calc_force_torque: the value read as abscissa[kk_count]
    cap_abscissa,
    \* f and torque as they were when the current pair was started
    f_pre, torque_pre,
    \* AtomVecSpherharm: expfacts_byshape on each rank, shape radii terms
    expfacts, nshtypes, bcast_done,
    \* AtomVecSpherharm::check_contact: arguments, locals and results
    cc_rank, cc_sht, cc_terms, outerdist, rad_val, cc_n, cc_ret, finalrad, cc_pc,
    \* AtomVecSpherharm::calcexpansionfactors_gauss: position, shape index,
    \* the scratch vectors, and what each degree adds to the radius of each
    \* shape at each grid point
    ex_pc, ex_sht, r_n, r_npo, ratios, expfactors, grid_terms,
    \* shcoeffs_byshape; read_sh_coeffs: position, shapenum, the records read
    \* so far, whether a store fell outside the table
    shcoeffs, rd_pc, rd_shape, rd_records, rd_oob,
    \* the coefficient a_{lk_n, lk_m} (and the order lk_mp of doRotate's inner
    \* loop) last looked up, and the index each routine uses for it
    lk_pc, lk_n, lk_m, lk_mp, lk_loc,
    \* AtomVecSpherharm::getI: position, shape index, the eigenvalues jacobi3
    \* returned for each shape, pinertia_byshape
    in_pc, in_sht, eigvals, pinertia,
    \* the Legendre routine last called, its arguments and what came back
    lg_fn, lg_l, lg_m, lg_x, lg_p1, lg_p2, lg_out,
    \* what the callers of get_shape_radius, get_coefficients and doRotate
    \* hold: the radius returned, the buffers coeff and coeffout
    or_rad, coeff, coeffout,
    \* PairSH::calc_force_torque, the bisection at one quadrature node:
    \* position, its locals, the number of passes of the while loop
    bs_pc, bs_radi, rad_body, radtol, upper_bound, lower_bound, rad_sample, bs_iter,
    \* NStencilFullMulti3d::create: position, loop variable, the members it
    \* reads (sx, sy, sz, mbinx, mbiny, cuttypesq) and writes
    st_pc, itype, sx, sy, sz, mbinx, mbiny, cuttypesq,
    stencil_multi, distsq_multi, nstencil_multi,
    \* ComputeShcoeff: position in read_coeffs, the line last read, what
    \* parse made of it, and the members size_array_rows, curentry, array
    rc_pc, rc_line, lnarg, larg_null, size_array_rows, curentry, array,
    \* whether a store of read_coeffs fell outside the allocation of array
    rc_oob,
    \* AtomVecSpherharm::doRotate: position, the loop counters n, m, mp of the
    \* pass to come, the angle beta (as a case) and how often it was nudged,
    \* the elements of dterm written, the reads of the last pass of the
    \* recursion, and the terms added to aa
    rt_pc, rt_n, rt_m, rt_mp, beta, beta_nudges, dterm, rt_reads, aa,
    \* the oracle loops: position, the function running, its maxshexpan, the
    \* degree n to come, the locals Pnm_m1, Pnm_m2, Pnm_nn as pb_nn (each the
    \* pair <<l, m>> of the P_{l,m} it holds), the calls of plegendre_recycle
    \* of the last degree, and whether an index outside the buffers was used
    pb_pc, pb_fn, pb_nmax, pb_n, Pnm_m1, Pnm_m2, pb_nn, pb_calls, pb_oob

hostVars == <<x, f, torque, firstneigh, newton_pair, max_rad>>

coeffVars == <<exponent, normal_coeffs, setflag, cut, matchtypes, typetosh, inited,
               ncoeff, coeff_k, coeff_exps>>

computeVars == <<pc, ii, jj, delvec, kk_count, candidates_found, vol_overlap,
                 iforce, torsum, fpair, pn, pen_types, xcont, tor_a, kk, ll,
                 rings_missed, cap_abscissa, f_pre, torque_pre>>

catalogVars == <<expfacts, nshtypes, bcast_done>>

contactVars == <<cc_rank, cc_sht, cc_terms, outerdist, rad_val, cc_n, cc_ret,
                 finalrad, cc_pc>>

expandVars == <<ex_pc, ex_sht, r_n, r_npo, ratios, expfactors, grid_terms>>

readerVars == <<shcoeffs, rd_pc, rd_shape, rd_records, rd_oob>>

layoutVars == <<lk_pc, lk_n, lk_m, lk_mp, lk_loc>>

inertiaVars == <<in_pc, in_sht, eigvals, pinertia>>

legendreVars == <<lg_fn, lg_l, lg_m, lg_x, lg_p1, lg_p2, lg_out>>

oracleVars == <<or_rad, coeff, coeffout>>

bisectVars == <<bs_pc, bs_radi, rad_body, radtol, upper_bound, lower_bound, rad_sample,
                bs_iter>>

stencilVars == <<st_pc, itype, sx, sy, sz, mbinx, mbiny, cuttypesq,
                 stencil_multi, distsq_multi, nstencil_multi>>

shcoeffVars == <<rc_pc, rc_line, lnarg, larg_null, size_array_rows, curentry, array,
                 rc_oob>>

rotateVars == <<rt_pc, rt_n, rt_m, rt_mp, beta, beta_nudges, dterm, rt_reads, aa>>

bufferVars == <<pb_pc, pb_fn, pb_nmax, pb_n, Pnm_m1, Pnm_m2, pb_nn, pb_calls, pb_oob>>

lateVars == <<bisectVars, stencilVars, shcoeffVars, rotateVars, bufferVars>>

kernelVars == <<layoutVars, inertiaVars, legendreVars, oracleVars, lateVars>>

\* everything but lateVars
earlyVars == <<hostVars, coeffVars, computeVars, catalogVars, contactVars, expandVars,
               readerVars, layoutVars, inertiaVars, legendreVars, oracleVars>>

shapeVars == <<expandVars, readerVars, kernelVars>>

vars == <<hostVars, coeffVars, computeVars, catalogVars, contactVars, shapeVars>>

----------------------------------------------------------------------------
(* The atoms of the run: atoms 0 and 1 are owned (index < nlocal), atom 2  *)
(* is a ghost.  Each atom type uses one shape (PairSH::matchtype).         *)

LocalAtoms == {0, 1}

GhostAtoms == {2}

Atoms == LocalAtoms \cup GhostAtoms

Shapes == {0, 1}

Types == {1, 2}

shtype(a) == IF a = 1 THEN 1 ELSE 0

type(a) == shtype(a) + 1

ilist == <<0, 1>>

PosSet == {V3(a, 0, 0) : a \in 1..MaxCoord}

\* sequences without repetition over a set of at most two atoms
NeighLists(S) ==
    {<<>>} \cup {<<a>> : a \in S} \cup {<<a, b>> : <<a, b>> \in {p \in S \X S : p[1] # p[2]}}

----------------------------------------------------------------------------
(* PairSH::compute, one step per loop iteration.  The geometry behind a    *)
(* contact test (trigonometry, shape radii) is an input of the step: each  *)
(* sample of a cap either is in contact or is not.                         *)

\* line 1687: the separation vector is accumulated into delvec
SeparationVector(dv, xj) == sub3(dv, xj)

\* line 1700: r < radi + radj, compared on the squares (all are >= 0)
InBoundingSpheres(rsq, radi, radj) ==
    RLess(rsq, RMul(RAdd(radi, radj), RAdd(radi, radj)))

\* line 1701: r > radj, compared on the squares
CapUsable(rsq, radj) == RLess(RMul(radj, radj), rsq)

\* variant: the ring index itself is handed back
RefineHitIndexSameRing(k) == k

\* line 2054: the index handed back by refine_cap_angle for a hit on ring k
RefineHitIndex(k) == k + 1

\* variant: the scan reports candidates whatever it found
RefineReturnAlwaysOne(hit) == 1

\* lines 2055, 2059: what refine_cap_angle returns
RefineReturnValue(hit) == IF hit THEN 1 ELSE 0

\* line 1722
ClampKkCount(k) == IF k > num_pole_quad THEN num_pole_quad ELSE k

\* PairSH::get_quadrature_values: abscissa[k], k in 0..num_pole_quad-1, the
\* Gauss-Legendre nodes in decreasing order (scaled by num_pole_quad)
Abscissa(k) == R(num_pole_quad - 1 - 2 * k)

\* line 2090: the read of abscissa[k]; outside the array any value can be read
AbscissaRead(k) ==
    IF k \in 0..(num_pole_quad - 1) THEN {Abscissa(k)}
    ELSE {Abscissa(0), R(num_pole_quad + 1)}

\* contributions of the quadrature nodes of a cap that are in contact:
\* dv = w (r_A^3 - r_s^3), nrm = w n / sin(theta), tor = u x nrm
NodeSet ==
    { [dv |-> R(1), nrm |-> V3(1, 0, 0),  tor |-> V3(0, 0, 1)],
      [dv |-> R(1), nrm |-> V3(-1, 0, 0), tor |-> V3(0, 1, 0)] }

RECURSIVE SumNodes(_)
SumNodes(S) ==
    IF S = {} THEN [dv |-> R(0), nrm |-> zero3, tor |-> zero3]
    ELSE LET nd == CHOOSE e \in S : TRUE
             rest == SumNodes(S \ {nd})
         IN  [dv |-> RAdd(rest.dv, nd.dv), nrm |-> add3(rest.nrm, nd.nrm),
              tor |-> add3(rest.tor, nd.tor)]

\* PairSH::calc_force_torque: sums over the nodes in contact (the factor
\* fac is taken as the unit of the sums)
CalcForceTorque(contacting) ==
    LET s == SumNodes(contacting)
    IN  [vol_overlap |-> s.dv, iforce |-> s.nrm, torsum |-> s.tor]

\* line 1732: pn = exponent * fpair * pow(vol_overlap, exponent - 1)
PenaltyMagnitude(e, k, vol) == RMul(RMul(R(e), k), RPow(vol, e - 1))

\* variant: the test on j < nlocal is left out
N3LBranchNewtonOnly(j) == newton_pair

\* line 1741
N3LBranch(j) == newton_pair \/ j \in LocalAtoms

\* variant: the cross product is not swapped (scale by +1/|F|^2)
ContactPointUnswapped(M, F, xi) ==
    add3(scale3(RDiv(R(1), lensq3(F)), cross3(M, F)), xi)

\* lines 1747-1750: contact point from the torque and force on particle a
ContactPoint(M, F, xi) ==
    LET fn2 == lensq3(F)
        mxf == cross3(M, F)
    IN  add3(scale3(RDiv(R(-1), fn2), mxf), xi)

\* lines 1751-1752: torque on particle b
TorqueOnB(F, xc, xj) == cross3(F, sub3(xc, xj))

CurI == ilist[ii + 1]

CurJ == firstneigh[CurI][jj + 1]

InitPair ==
    /\ x \in [Atoms -> PosSet]
    /\ f = [a \in Atoms |-> zero3]
    /\ torque = [a \in Atoms |-> zero3]
    /\ firstneigh \in {fn \in [LocalAtoms -> NeighLists(Atoms)] :
                          /\ fn[0] \in NeighLists({1, 2})
                          /\ fn[1] \in NeighLists({2})}
    /\ newton_pair \in BOOLEAN
    /\ max_rad \in [Shapes -> {R(1), R(MaxRad)}]
    /\ pc = "iloop" /\ ii = 0 /\ jj = 0
    /\ delvec = zero3 /\ kk_count = -1 /\ candidates_found = FALSE
    /\ vol_overlap = R(0) /\ iforce = zero3 /\ torsum = zero3
    /\ fpair = R(0) /\ pn = R(0) /\ pen_types = <<1, 1>>
    /\ xcont = zero3 /\ tor_a = zero3
    /\ kk = 0 /\ ll = 0 /\ rings_missed = {} /\ cap_abscissa = R(0)
    /\ f_pre = f /\ torque_pre = torque

\* lines 1669-1682
AtomBegin ==
    /\ pc = "iloop" /\ ii < Len(ilist)
    /\ delvec' = x[CurI]
    /\ jj' = 0
    /\ pc' = "jloop"
    /\ UNCHANGED <<ii, kk_count, candidates_found, vol_overlap, iforce, torsum,
                   fpair, pn, pen_types, xcont, tor_a, kk, ll, rings_missed, cap_abscissa, f_pre,
                   torque_pre>>
    /\ UNCHANGED <<hostVars, coeffVars, catalogVars, contactVars, shapeVars>>

\* lines 1684-1717: start of one pair, up to the call of refine_cap_angle
PairStart ==
    /\ pc = "jloop" /\ jj < Len(firstneigh[CurI])
    /\ LET i == CurI
           j == CurJ
           dv == SeparationVector(delvec, x[j])
           rsq == lensq3(dv)
           radi == max_rad[shtype(i)]
           radj == max_rad[shtype(j)]
       IN  /\ kk_count' = -1
           /\ vol_overlap' = R(0)
           /\ iforce' = zero3
           /\ torsum' = zero3
           /\ f_pre' = f
           /\ torque_pre' = torque
           /\ IF ~InBoundingSpheres(rsq, radi, radj)
              THEN /\ delvec' = dv
                   /\ pc' = "rejected"
                   /\ UNCHANGED <<kk, ll, rings_missed>>
              ELSE IF ~CapUsable(rsq, radj)
              THEN /\ delvec' = dv
                   /\ pc' = "error"
                   /\ UNCHANGED <<kk, ll, rings_missed>>
              ELSE /\ delvec' = negate3(dv)
                   /\ kk' = num_pole_quad - 1
                   /\ ll' = 1
                   /\ rings_missed' = {}
                   /\ pc' = "refine"
    /\ UNCHANGED <<ii, jj, candidates_found, cap_abscissa, fpair, pn, pen_types, xcont, tor_a>>
    /\ UNCHANGED <<hostVars, coeffVars, catalogVars, contactVars, shapeVars>>

\* lines 2016-2059: one sample (kk, ll) of refine_cap_angle; on its return,
\* lines 1722 and 1724 of compute
RefineSample ==
    /\ pc = "refine"
    /\ \E hit \in BOOLEAN :
         IF hit
         THEN /\ kk_count' = ClampKkCount(RefineHitIndex(kk))
              /\ candidates_found' = (RefineReturnValue(TRUE) # 0)
              /\ pc' = (IF RefineReturnValue(TRUE) # 0 THEN "calc" ELSE "nocontact")
              /\ ll' = 0
              /\ UNCHANGED <<kk, rings_missed>>
         ELSE IF ll < 2 * (num_pole_quad - 1) + 1
         THEN /\ ll' = ll + 1
              /\ UNCHANGED <<kk, rings_missed, kk_count, candidates_found, pc>>
         ELSE IF kk > 0
         THEN /\ kk' = kk - 1
              /\ ll' = 1
              /\ rings_missed' = rings_missed \cup {kk}
              /\ UNCHANGED <<kk_count, candidates_found, pc>>
         ELSE /\ candidates_found' = (RefineReturnValue(FALSE) # 0)
              /\ kk_count' = ClampKkCount(kk_count)
              /\ rings_missed' = rings_missed \cup {kk}
              /\ pc' = (IF RefineReturnValue(FALSE) # 0 THEN "calc" ELSE "nocontact")
              /\ kk' = 0 /\ ll' = 0
    /\ UNCHANGED <<ii, jj, delvec, vol_overlap, iforce, torsum, cap_abscissa,
                   fpair, pn, pen_types, xcont, tor_a, f_pre, torque_pre>>
    /\ UNCHANGED <<hostVars, coeffVars, catalogVars, contactVars, shapeVars>>

\* lines 1726-1755: calc_force_torque and the forces and torques of the pair
PairForce ==
    /\ pc = "calc"
    /\ \E absval \in AbscissaRead(kk_count),
          contacting \in SUBSET NodeSet :
         LET i == CurI
             j == CurJ
             res == CalcForceTorque(contacting)
             k == normal_coeffs[<<type(i), type(j)>>]
             p == PenaltyMagnitude(exponent, k, res.vol_overlap)
             F == scale3(RNeg(p), res.iforce)
             M == scale3(RNeg(p), res.torsum)
             f1 == [f EXCEPT ![i] = add3(@, F)]
             t1 == [torque EXCEPT ![i] = add3(@, M)]
             xc == ContactPoint(M, F, x[i])
             Mj == TorqueOnB(F, xc, x[j])
         IN  /\ cap_abscissa' = absval
             /\ vol_overlap' = res.vol_overlap
             /\ fpair' = k
             /\ pn' = p
             /\ pen_types' = <<type(i), type(j)>>
             /\ iforce' = F
             /\ tor_a' = M
             /\ IF N3LBranch(j)
                THEN /\ f' = [f1 EXCEPT ![j] = sub3(@, F)]
                     /\ xcont' = xc
                     /\ torque' = [t1 EXCEPT ![j] = add3(@, Mj)]
                     /\ torsum' = Mj
                ELSE /\ f' = f1
                     /\ xcont' = xcont
                     /\ torque' = t1
                     /\ torsum' = M
    /\ pc' = "applied"
    /\ UNCHANGED <<ii, jj, delvec, kk_count, candidates_found, kk, ll, rings_missed,
                   f_pre, torque_pre>>
    /\ UNCHANGED <<x, firstneigh, newton_pair, max_rad>>
    /\ UNCHANGED <<coeffVars, catalogVars, contactVars, shapeVars>>

\* line 1684: jj++
PairNext ==
    /\ pc \in {"rejected", "nocontact", "applied"}
    /\ jj' = jj + 1
    /\ pc' = "jloop"
    /\ UNCHANGED <<ii, delvec, kk_count, candidates_found, vol_overlap, iforce,
                   torsum, fpair, pn, pen_types, xcont, tor_a, kk, ll, rings_missed, cap_abscissa,
                   f_pre, torque_pre>>
    /\ UNCHANGED <<hostVars, coeffVars, catalogVars, contactVars, shapeVars>>

\* lines 1684, 1669: end of the neighbour list of atom i, ii++
AtomEnd ==
    /\ pc = "jloop" /\ jj = Len(firstneigh[CurI])
    /\ ii' = ii + 1
    /\ pc' = "iloop"
    /\ UNCHANGED <<jj, delvec, kk_count, candidates_found, vol_overlap, iforce,
                   torsum, fpair, pn, pen_types, xcont, tor_a, kk, ll, rings_missed, cap_abscissa,
                   f_pre, torque_pre>>
    /\ UNCHANGED <<hostVars, coeffVars, catalogVars, contactVars, shapeVars>>

\* line 1799
ComputeEnd ==
    /\ pc = "iloop" /\ ii = Len(ilist)
    /\ pc' = "done"
    /\ UNCHANGED <<ii, jj, delvec, kk_count, candidates_found, vol_overlap, iforce,
                   torsum, fpair, pn, pen_types, xcont, tor_a, kk, ll, rings_missed, cap_abscissa,
                   f_pre, torque_pre>>
    /\ UNCHANGED <<hostVars, coeffVars, catalogVars, contactVars, shapeVars>>

----------------------------------------------------------------------------
(* PairSH::coeff, PairSH::matchtype, PairSH::init_one *)

\* an array entry that memory->create has allocated and nothing has written
Unset == <<0, -1>>

TypePairs == Types \X Types

UpperPairs == {tp \in TypePairs : tp[1] <= tp[2]}

\* exponents a pair_coeff command may give; -1 is the value PairSH() stores
\* for "not set yet"
ExponentArgs == {-1, 1, 2}

Max(a, b) == IF a > b THEN a ELSE b

\* lines 1889-1915: the shape of the owned atoms of each type
MatchType == [t \in Types |-> shtype(CHOOSE a \in LocalAtoms : type(a) = t)]

\* lines 1869-1878: the type pairs one pair_coeff command writes
CoeffPairs(ilo, ihi, jlo, jhi) ==
    {tp \in TypePairs : /\ ilo <= tp[1] /\ tp[1] <= ihi
                        /\ Max(jlo, tp[1]) <= tp[2] /\ tp[2] <= jhi}

\* line 1949: the stiffness init_one stores for the pair (i, j) and (j, i)
InitOneCoeff(nc, i, j) == nc[<<i, i>>]

InitCoeff ==
    /\ exponent = -1
    /\ normal_coeffs = [tp \in TypePairs |-> Unset]
    /\ setflag = [tp \in TypePairs |-> 0]
    /\ cut = [tp \in TypePairs |-> Unset]
    /\ matchtypes = 0
    /\ typetosh = [t \in Types |-> -1]
    /\ inited = {}
    /\ ncoeff = 0
    /\ coeff_k = [tp \in TypePairs |-> Unset]
    /\ coeff_exps = {}

\* lines 1841-1881; the ranges are what utils::bounds accepts
Coeff ==
    /\ pc = "setup" /\ ncoeff < MaxCoeffCalls
    /\ \E ilo \in Types, ihi \in Types, jlo \in Types, jhi \in Types,
          k \in 1..MaxK, exponent_in \in ExponentArgs :
         /\ ilo <= ihi /\ jlo <= jhi
         /\ ncoeff' = ncoeff + 1
         /\ IF exponent # -1 /\ exponent # exponent_in
            THEN /\ pc' = "error"
                 /\ UNCHANGED <<exponent, normal_coeffs, setflag, cut, matchtypes,
                                typetosh, coeff_k, coeff_exps>>
            ELSE LET written == CoeffPairs(ilo, ihi, jlo, jhi)
                     tsh == MatchType
                 IN  /\ exponent' = (IF exponent = -1 THEN exponent_in ELSE exponent)
                     /\ matchtypes' = 1
                     /\ typetosh' = tsh
                     /\ cut' = [tp \in TypePairs |->
                                  IF tp \in written
                                  THEN RAdd(max_rad[tsh[tp[1]]], max_rad[tsh[tp[2]]])
                                  ELSE cut[tp]]
                     /\ setflag' = [tp \in TypePairs |->
                                      IF tp \in written THEN 1 ELSE setflag[tp]]
                     /\ normal_coeffs' = [tp \in TypePairs |->
                                      IF tp \in written THEN R(k) ELSE normal_coeffs[tp]]
                     /\ coeff_k' = [tp \in TypePairs |->
                                      IF tp \in written THEN R(k) ELSE coeff_k[tp]]
                     /\ pc' = (IF written = {} THEN "error" ELSE "setup")
                     /\ coeff_exps' = (IF written = {} THEN coeff_exps
                                       ELSE coeff_exps \cup {exponent_in})
    /\ UNCHANGED <<inited>>
    /\ UNCHANGED <<ii, jj, delvec, kk_count, candidates_found, vol_overlap, iforce,
                   torsum, fpair, pn, pen_types, xcont, tor_a, kk, ll, rings_missed, cap_abscissa,
                   f_pre, torque_pre>>
    /\ UNCHANGED <<hostVars, catalogVars, contactVars, shapeVars>>

\* lines 1936-1952.  Pair::init calls init_one(i, j) for every i <= j once
\* every setflag[i][i] is set.
InitOne ==
    /\ pc \in {"setup", "init"}
    /\ \A t \in Types : setflag[<<t, t>>] = 1
    /\ \E tp \in UpperPairs \ inited :
         LET i == tp[1]
             j == tp[2]
             kij == InitOneCoeff(normal_coeffs, i, j)
         IN  /\ cut' = [cut EXCEPT ![tp] =
                          IF setflag[tp] = 0
                          THEN RAdd(max_rad[typetosh[i]], max_rad[typetosh[j]])
                          ELSE @]
             /\ normal_coeffs' = [normal_coeffs EXCEPT ![<<i, j>>] = kij,
                                                       ![<<j, i>>] = kij]
             /\ inited' = inited \cup {tp}
    /\ pc' = "init"
    /\ UNCHANGED <<exponent, setflag, matchtypes, typetosh, ncoeff, coeff_k, coeff_exps>>
    /\ UNCHANGED <<ii, jj, delvec, kk_count, candidates_found, vol_overlap, iforce,
                   torsum, fpair, pn, pen_types, xcont, tor_a, kk, ll, rings_missed, cap_abscissa,
                   f_pre, torque_pre>>
    /\ UNCHANGED <<hostVars, catalogVars, contactVars, shapeVars>>

\* overlap volumes a contacting pair may have
VolSet == {R(0), R(1), R(2)}

\* lines 1731-1732 for a contacting pair of types (itype, jtype)
ComputePenalty ==
    /\ pc \in {"init", "penalty"}
    /\ inited = UpperPairs
    /\ \E tp \in TypePairs, vol \in VolSet :
         /\ pen_types' = tp
         /\ vol_overlap' = vol
         /\ fpair' = normal_coeffs[tp]
         /\ pn' = PenaltyMagnitude(exponent, normal_coeffs[tp], vol)
    /\ pc' = "penalty"
    /\ UNCHANGED <<ii, jj, delvec, kk_count, candidates_found, iforce, torsum,
                   xcont, tor_a, kk, ll, rings_missed, cap_abscissa, f_pre,
                   torque_pre>>
    /\ UNCHANGED <<hostVars, coeffVars, catalogVars, contactVars, shapeVars>>

----------------------------------------------------------------------------
(* AtomVecSpherharm::process_args: the expansion factors on every rank *)

Ranks == {0, 1}

Degrees == 0..maxshexpan

\* numbers of shapes a run may be given (narg - 1)
NShTypeSet == {1, 2}

\* line 569
safety_factor == R(1)

\* the largest ratio r_(n+1)/r_n over the grid (line 635), for a degree
MaxValSet == {<<1, 2>>, R(2)}

\* variant: the largest ratio is taken as it is
ClampRatioNone(v) == v

\* lines 636-638
ClampRatio(v) == IF RLess(v, R(1)) THEN R(1) ELSE v

\* lines 642-648: expfacts[n] is the running product from maxshexpan down
RECURSIVE AccumulateFactor(_, _)
AccumulateFactor(mx, n) ==
    IF n >= maxshexpan THEN R(1)
    ELSE RMul(AccumulateFactor(mx, n + 1), RMul(ClampRatio(mx[n]), safety_factor))

ExpFactsOfShape(mx) == [n \in Degrees |-> AccumulateFactor(mx, n)]

\* line 157: the number of doubles of expfacts_byshape that are broadcast
BcastCount(ns) == ns * maxshexpan + 1

\* position of expfacts_byshape[sht][n] in the contiguous array (line 109)
FlatIndex(sht, n) == sht * (maxshexpan + 1) + n

\* what a rank other than 0 may find in memory it has not written
GarbageSet == {R(0), R(1), R(2)}

InitCatalog ==
    /\ nshtypes = 0
    /\ expfacts = [rk \in Ranks |-> [sht \in Shapes |-> [n \in Degrees |-> Unset]]]
    /\ bcast_done = FALSE

\* lines 89-158 on all ranks: rank 0 computes, MPI_Bcast copies to the others
ProcessArgs ==
    /\ ~bcast_done
    /\ \E ns \in NShTypeSet,
          mx \in [Shapes -> [0..(maxshexpan - 1) -> MaxValSet]],
          garbage \in GarbageSet :
         LET root == [sht \in Shapes |->
                        IF sht < ns THEN ExpFactsOfShape(mx[sht])
                        ELSE [n \in Degrees |-> Unset]]
             other == [sht \in Shapes |-> [n \in Degrees |->
                        IF sht >= ns THEN Unset
                        ELSE IF FlatIndex(sht, n) < BcastCount(ns) THEN root[sht][n]
                        ELSE garbage]]
         IN  /\ \A sht \in Shapes : sht >= ns =>
                   mx[sht] = [n \in 0..(maxshexpan - 1) |-> R(2)]
             /\ nshtypes' = ns
             /\ expfacts' = [rk \in Ranks |-> IF rk = 0 THEN root ELSE other]
    /\ bcast_done' = TRUE
    /\ UNCHANGED <<hostVars, coeffVars, computeVars, contactVars, shapeVars>>

----------------------------------------------------------------------------
(* AtomVecSpherharm::check_contact.  terms[n] is what degree n adds to the *)
(* radius in the direction asked for (terms[0] is a_00 sqrt(1/4pi)).       *)

\* terms of degree >= 1
TermSet == {R(-1), R(0), R(1)}

\* a_00 sqrt(1/4pi)
BaseRadiusSet == {R(2)}

\* variant: the partial radius is compared without its expansion factor
RECURSIVE ContactLoopUnexpanded(_, _, _, _, _)
ContactLoopUnexpanded(ef, terms, d, n, rad) ==
    IF n > maxshexpan
    THEN [ret |-> 0, rad_val |-> rad, n |-> n - 1, wrote |-> FALSE]
    ELSE LET rad1 == RAdd(rad, terms[n])
         IN  IF RLess(rad1, d)
             THEN [ret |-> 0, rad_val |-> rad1, n |-> n, wrote |-> FALSE]
             ELSE IF n + 1 > maxshexpan
             THEN [ret |-> 1, rad_val |-> rad1, n |-> n, wrote |-> TRUE]
             ELSE ContactLoopUnexpanded(ef, terms, d, n + 1, rad1)

\* lines 697-761: the loop over the degrees from n on, rad the radius so far
RECURSIVE ContactLoop(_, _, _, _, _)
ContactLoop(ef, terms, d, n, rad) ==
    IF n > maxshexpan
    THEN [ret |-> 0, rad_val |-> rad, n |-> n - 1, wrote |-> FALSE]
    ELSE LET rad1 == RAdd(rad, terms[n])
             sh_dist == RMul(ef[n], rad1)
         IN  IF RLess(sh_dist, d)
             THEN [ret |-> 0, rad_val |-> rad1, n |-> n, wrote |-> FALSE]
             ELSE IF n + 1 > maxshexpan
             THEN (IF RLeq(d, sh_dist)
                   THEN [ret |-> 1, rad_val |-> rad1, n |-> n, wrote |-> TRUE]
                   ELSE [ret |-> 0, rad_val |-> rad1, n |-> n, wrote |-> FALSE])
             ELSE ContactLoop(ef, terms, d, n + 1, rad1)

\* lines 680-763
CheckContactResult(ef, terms, d) ==
    IF RLess(RMul(ef[0], terms[0]), d)
    THEN [ret |-> 0, rad_val |-> terms[0], n |-> 0, wrote |-> FALSE]
    ELSE ContactLoop(ef, terms, d, 1, terms[0])

\* lines 780-831: the loop of get_shape_radius over the degrees from n on
RECURSIVE ShapeRadiusLoop(_, _, _)
ShapeRadiusLoop(terms, n, rad) ==
    IF n > maxshexpan THEN rad
    ELSE ShapeRadiusLoop(terms, n + 1, RAdd(rad, terms[n]))

\* lines 769-833: the radius at the full degree of expansion
GetShapeRadius(terms) == ShapeRadiusLoop(terms, 1, terms[0])

InitContact ==
    /\ cc_pc = "idle"
    /\ cc_rank = 0 /\ cc_sht = 0
    /\ cc_terms = [n \in Degrees |-> R(0)]
    /\ outerdist = R(0) /\ rad_val = R(0) /\ cc_n = 0 /\ cc_ret = 0
    /\ finalrad = Unset

\* one call of check_contact on rank rk for shape sht
\* check_contact(sht, phi_proj, theta_proj, outerdist, finalrad) on rank rk,
\* in a direction in which degree n adds terms[n] to the radius
CheckContactCall(rk, sht, dist, terms) ==
    /\ bcast_done /\ cc_pc = "idle"
    /\ sht < nshtypes
    /\ LET res == CheckContactResult(expfacts[rk][sht], terms, dist)
       IN  /\ cc_rank' = rk /\ cc_sht' = sht /\ cc_terms' = terms
           /\ outerdist' = dist
           /\ rad_val' = res.rad_val
           /\ cc_n' = res.n
           /\ cc_ret' = res.ret
           /\ finalrad' = (IF res.wrote THEN res.rad_val ELSE finalrad)
    /\ cc_pc' = "done"
    /\ UNCHANGED <<hostVars, coeffVars, computeVars, catalogVars, shapeVars>>

CheckContact ==
    \E rk \in Ranks, sht \in Shapes, d \in 0..MaxDist,
       terms \in [Degrees -> TermSet \cup BaseRadiusSet] :
         /\ terms[0] \in BaseRadiusSet
         /\ \A n \in 1..maxshexpan : terms[n] \in TermSet
         /\ CheckContactCall(rk, sht, R(d), terms)

----------------------------------------------------------------------------
(* AtomVecSpherharm::calcexpansionfactors_gauss on rank 0.                  *)
(* grid_terms[sht][n][k] is what degree n adds to the radius of shape sht   *)
(* at grid point k (the degree-0 term is the same at every grid point).     *)

\* k = 0 .. num_quad2 - 1
GridPoints == {0, 1}

\* a_00 P_00
GridBaseSet == {R(1), R(2)}

GridTermSet == {R(-2), R(1)}

GridTerms ==
    {[n \in Degrees |-> IF n = 0 THEN [k \in GridPoints |-> b] ELSE t[n]] :
        b \in GridBaseSet, t \in [1..maxshexpan -> [GridPoints -> GridTermSet]]}

NoTerms == [n \in Degrees |-> [k \in GridPoints |-> R(0)]]

\* lines 629-634: the largest ratio, from max_val = 0, over k = from, from+1, ..
RECURSIVE MaxRatio(_, _, _)
MaxRatio(rat, from, max_val) ==
    IF from \notin GridPoints THEN max_val
    ELSE MaxRatio(rat, from + 1,
                  IF RLess(max_val, rat[from]) THEN rat[from] ELSE max_val)

\* variant: the radius seen last is kept
MaxRadUpdateLast(maxrad, r) == r

\* lines 621-623
MaxRadUpdate(maxrad, r) == IF RLess(maxrad, r) THEN r ELSE maxrad

\* lines 620-624 over k = from, from+1, ..
RECURSIVE MaxRadOverGrid(_, _, _)
MaxRadOverGrid(rn, from, maxrad) ==
    IF from \notin GridPoints THEN maxrad
    ELSE MaxRadOverGrid(rn, from + 1, MaxRadUpdate(maxrad, rn[from]))

\* lines 588-639: one pass of the loop over n; st holds the scratch vectors
\* and maxrad_byshape[sht]
DegreeStep(st, n, terms) ==
    LET rn == [k \in GridPoints |-> RAdd(st.r_n[k], terms[n][k])]
    IN  IF n <= maxshexpan - 1
        THEN LET rnpo == [k \in GridPoints |-> RAdd(rn[k], terms[n + 1][k])]
                 rat == [k \in GridPoints |-> RDiv(rnpo[k], rn[k])]
             IN  [st EXCEPT !.r_n = rn, !.r_npo = rnpo, !.ratios = rat,
                            !.expfactors[n] = ClampRatio(MaxRatio(rat, 0, R(0)))]
        ELSE [st EXCEPT !.r_n = rn,
                        !.maxrad = MaxRadOverGrid(rn, 0, st.maxrad)]

RECURSIVE DegreeLoop(_, _, _)
DegreeLoop(st, n, terms) ==
    IF n > maxshexpan THEN st
    ELSE DegreeLoop(DegreeStep(st, n, terms), n + 1, terms)

\* lines 643-647: the running product, from n down to 0
RECURSIVE FactorLoop(_, _, _)
FactorLoop(ef, n, factor) ==
    IF n < 0 THEN ef
    ELSE LET f2 == RMul(factor, RMul(ef[n], safety_factor))
         IN  FactorLoop([ef EXCEPT ![n] = f2], n - 1, f2)

\* lines 586-664 for one shape: the scratch vectors after it, its row of
\* expfacts_byshape and its maxrad_byshape
ExpandOneShape(st0, terms) ==
    LET st1 == DegreeLoop([st0 EXCEPT !.r_n = [k \in GridPoints |-> R(0)]], 0, terms)
        ef == FactorLoop(st1.expfactors, maxshexpan - 1, st1.expfactors[maxshexpan])
    IN  [scratch |-> [st1 EXCEPT !.expfactors = ef],
         row |-> [ef EXCEPT ![maxshexpan] = R(1)],
         maxrad |-> RMul(st1.maxrad, safety_factor)]

InitExpand ==
    /\ ex_pc = "idle" /\ ex_sht = 0
    /\ r_n = [k \in GridPoints |-> R(0)]
    /\ r_npo = [k \in GridPoints |-> R(0)]
    /\ ratios = [k \in GridPoints |-> R(0)]
    /\ expfactors = [n \in Degrees |-> R(0)]
    /\ grid_terms = [sht \in Shapes |-> NoTerms]

\* process_args lines 97-125 and lines 577-581: the tables are allocated,
\* maxrad_byshape is zeroed, the scratch vectors are created
ExpandBegin ==
    /\ ex_pc = "idle" /\ ~bcast_done
    /\ \E ns \in NShTypeSet : nshtypes' = ns
    /\ max_rad' = [sht \in Shapes |-> R(0)]
    /\ r_n' = [k \in GridPoints |-> R(0)]
    /\ r_npo' = [k \in GridPoints |-> R(0)]
    /\ ratios' = [k \in GridPoints |-> R(0)]
    /\ expfactors' = [n \in Degrees |-> IF n = maxshexpan THEN R(1) ELSE R(0)]
    /\ ex_sht' = 0
    /\ ex_pc' = "run"
    /\ UNCHANGED <<x, f, torque, firstneigh, newton_pair>>
    /\ UNCHANGED <<expfacts, bcast_done, grid_terms>>
    /\ UNCHANGED <<coeffVars, computeVars, contactVars, readerVars, kernelVars>>

\* one pass of the loop over sht (lines 584-665)
ExpandShape ==
    /\ ex_pc = "run" /\ ex_sht < nshtypes
    /\ \E terms \in GridTerms :
         \E res \in {ExpandOneShape([r_n |-> r_n, r_npo |-> r_npo, ratios |-> ratios,
                                     expfactors |-> expfactors,
                                     maxrad |-> max_rad[ex_sht]], terms)} :
             /\ r_n' = res.scratch.r_n
             /\ r_npo' = res.scratch.r_npo
             /\ ratios' = res.scratch.ratios
             /\ expfactors' = res.scratch.expfactors
             /\ expfacts' = [expfacts EXCEPT ![0][ex_sht] = res.row]
             /\ max_rad' = [max_rad EXCEPT ![ex_sht] = res.maxrad]
             /\ grid_terms' = [grid_terms EXCEPT ![ex_sht] = terms]
    /\ ex_sht' = ex_sht + 1
    /\ UNCHANGED <<x, f, torque, firstneigh, newton_pair>>
    /\ UNCHANGED <<nshtypes, bcast_done, ex_pc>>
    /\ UNCHANGED <<coeffVars, computeVars, contactVars, readerVars, kernelVars>>

\* the loop over sht ends (line 584)
ExpandEnd ==
    /\ ex_pc = "run" /\ ex_sht = nshtypes
    /\ ex_pc' = "done"
    /\ UNCHANGED <<ex_sht, r_n, r_npo, ratios, expfactors, grid_terms>>
    /\ UNCHANGED <<hostVars, coeffVars, computeVars, catalogVars, contactVars, readerVars, kernelVars>>

----------------------------------------------------------------------------
(* AtomVecSpherharm::read_sh_coeffs, called by process_args on rank 0 *)

\* line 102
numcoeffs == (maxshexpan + 1) * (maxshexpan + 2)

Slots == 0..(numcoeffs - 1)

\* the fields n and m a record may carry, and its pair (real, imaginary)
RecordDegrees == 0..(maxshexpan + 1)

RecordOrders == (-1)..maxshexpan

RecordValues == {<<R(1), R(2)>>, <<R(2), R(1)>>}

Records ==
    {[n |-> n, m |-> m, re |-> v[1], im |-> v[2]] :
        n \in RecordDegrees, m \in RecordOrders, v \in RecordValues}

\* variant: the orders are laid out upwards from m = 0
ReaderEntryAscending(nn, mm) == nn * (nn + 1) + 2 * mm

\* line 1256
ReaderEntry(nn, mm) == nn * (nn + 1) + 2 * (nn - mm)

\* position of shcoeffs_byshape[shapenum][entry] in the contiguous table
\* (line 108)
FlatSlot(shapenum, entry) == shapenum * numcoeffs + entry

InTable(ns, flat) == 0 <= flat /\ flat < ns * numcoeffs

\* lines 1257-1258 for a store that lands inside the table
StoreRecord(tab, flat, rec) ==
    [sht \in Shapes |-> [e \in Slots |->
        IF FlatSlot(sht, e) = flat THEN rec.re
        ELSE IF FlatSlot(sht, e) = flat + 1 THEN rec.im
        ELSE tab[sht][e]]]

InitReader ==
    /\ shcoeffs = [sht \in Shapes |-> [e \in Slots |-> Unset]]
    /\ rd_pc = "idle" /\ rd_shape = 0
    /\ rd_records = <<>>
    /\ rd_oob = FALSE

\* process_args lines 97-134: the table is allocated and zeroed, then
\* read_sh_coeffs is called for the file of shape shapenum
ReadBegin ==
    /\ rd_pc = "idle" /\ ~bcast_done /\ ex_pc = "idle"
    /\ \E ns \in NShTypeSet, shapenum \in Shapes :
         /\ shapenum < ns
         /\ nshtypes' = ns
         /\ rd_shape' = shapenum
    /\ shcoeffs' = [sht \in Shapes |-> [e \in Slots |-> R(0)]]
    /\ rd_pc' = "reading"
    /\ UNCHANGED <<rd_records, rd_oob, expfacts, bcast_done>>
    /\ UNCHANGED <<hostVars, coeffVars, computeVars, contactVars, expandVars, kernelVars>>

\* one pass of the loop at line 1242 for a line of four fields
ReadRecord ==
    /\ rd_pc = "reading" /\ Len(rd_records) < MaxRecords
    /\ \E rec \in Records :
         /\ rd_records' = Append(rd_records, rec)
         /\ IF rec.n > maxshexpan
            THEN /\ rd_pc' = "stopped"
                 /\ UNCHANGED <<shcoeffs, rd_oob>>
            ELSE IF rec.m >= 0
            THEN LET flat == FlatSlot(rd_shape, ReaderEntry(rec.n, rec.m))
                 IN  IF InTable(nshtypes, flat)
                     THEN /\ shcoeffs' = StoreRecord(shcoeffs, flat, rec)
                          /\ UNCHANGED <<rd_pc, rd_oob>>
                     ELSE \* a store outside the allocation
                          /\ rd_oob' = TRUE
                          /\ rd_pc' \in {"reading", "crashed"}
                          /\ UNCHANGED shcoeffs
            ELSE UNCHANGED <<shcoeffs, rd_pc, rd_oob>>
    /\ UNCHANGED <<rd_shape, expandVars, kernelVars>>
    /\ UNCHANGED <<hostVars, coeffVars, computeVars, catalogVars, contactVars>>

\* next_line returns null: the file has ended
ReadEnd ==
    /\ rd_pc = "reading"
    /\ rd_pc' = "eof"
    /\ UNCHANGED <<shcoeffs, rd_shape, rd_records, rd_oob, expandVars, kernelVars>>
    /\ UNCHANGED <<hostVars, coeffVars, computeVars, catalogVars, contactVars>>

----------------------------------------------------------------------------
(* Where each routine of AtomVecSpherharm keeps the coefficient a_{n,m} *)

LayoutDegrees == 0..MaxLayoutDegree

\* variant: the n = 2 branch starts its orders at the slot of m = 1
RadiusLocShifted(n, m) ==
    IF n = 2 /\ m > 0 THEN n * (n + 1) + 2 + 2 * (2 - m)
    ELSE n * (n + 1) + 2 * (n - m)

\* the loop "for (m = n; m >= 0; m--) { ...[loc]...; loc = loc + 2; }":
\* the value of loc when the loop variable, now at mcur, reaches m
RECURSIVE WalkDown(_, _, _)
WalkDown(mcur, m, loc) ==
    IF mcur <= m THEN loc ELSE WalkDown(mcur - 1, m, loc + 2)

\* the orders m = 0, 1, ..., n of the n >= 3 branch of the radius loops,
\* with "loc -= 2" after each
RECURSIVE WalkUp(_, _, _)
WalkUp(mcur, m, loc) ==
    IF mcur >= m THEN loc ELSE WalkUp(mcur + 1, m, loc - 2)

\* get_shape_radius lines 771-831; check_contact and the normal and gradient
\* variants index the table with the same statements
RadiusLoc(n, m) ==
    IF n = 0 THEN 0
    ELSE IF n = 1 THEN (IF m = 0 THEN 4 ELSE 2)
    ELSE IF n = 2 THEN (IF m = 0 THEN 10 ELSE WalkDown(2, m, n * (n + 1)))
    ELSE WalkUp(0, m, (n + 1) * (n + 2) - 2)

\* get_coefficients lines 1542-1548
CoefficientsLoc(n, m) == WalkDown(n, m, n * (n + 1))

\* doRotate lines 1503 and 1510: the input read for the order mp
RotateLookupLoc(n, mp) == (n + 1) * (n + 2) - 2 - 2 * Abs(mp)

\* doRotate lines 1524-1531: the output store
RotateStoreLoc(n, m) == WalkDown(n, m, n * (n + 1))

InitLayout ==
    /\ lk_pc = "idle"
    /\ lk_n = 0 /\ lk_m = 0 /\ lk_mp = 0
    /\ lk_loc = [reader |-> 0, radius |-> 0, coefficients |-> 0,
                 rotate_in |-> 0, rotate_out |-> 0]

\* each routine addresses a_{n,m}; doRotate also reads a_{n,|mp|}
LayoutLookup ==
    /\ \E n \in LayoutDegrees, m \in LayoutDegrees, mp \in (-MaxLayoutDegree)..MaxLayoutDegree :
         /\ m <= n /\ Abs(mp) <= n
         /\ lk_n' = n /\ lk_m' = m /\ lk_mp' = mp
         /\ lk_loc' = [reader |-> ReaderEntry(n, m),
                       radius |-> RadiusLoc(n, m),
                       coefficients |-> CoefficientsLoc(n, m),
                       rotate_in |-> RotateLookupLoc(n, mp),
                       rotate_out |-> RotateStoreLoc(n, m)]
    /\ lk_pc' = "looked"
    /\ UNCHANGED <<hostVars, coeffVars, computeVars, catalogVars, contactVars>>
    /\ UNCHANGED <<expandVars, readerVars, inertiaVars, legendreVars, oracleVars, lateVars>>

----------------------------------------------------------------------------
(* AtomVecSpherharm::getI: the principal moments of each shape *)

\* line 258
EPSILON == <<1, 10000000>>

\* the eigenvalues MathEigen::jacobi3 may hand back
EigenSet == {R(-1), R(0), R(1), R(10000000), R(20000000)}

\* the macro MAX of the host code
MAX(a, b) == IF RLess(b, a) THEN a ELSE b

\* variant: only negative moments are set to zero
ClampMomentNegative(v, max) == IF RLess(v, R(0)) THEN R(0) ELSE v

\* lines 367-369
ClampMoment(v, max) == IF RLess(v, RMul(EPSILON, max)) THEN R(0) ELSE v

\* lines 364-369, 406-408
ClampedInertia(inertia) ==
    LET max == MAX(MAX(inertia[1], inertia[2]), inertia[3])
    IN  <<ClampMoment(inertia[1], max), ClampMoment(inertia[2], max),
          ClampMoment(inertia[3], max)>>

InitInertia ==
    /\ in_pc = "idle" /\ in_sht = 0
    /\ eigvals = [sht \in Shapes |-> <<Unset, Unset, Unset>>]
    /\ pinertia = [sht \in Shapes |-> <<Unset, Unset, Unset>>]

\* process_args lines 97-144 up to the call of getI
InertiaBegin ==
    /\ in_pc = "idle" /\ ~bcast_done /\ ex_pc = "idle" /\ rd_pc = "idle"
    /\ nshtypes' \in NShTypeSet
    /\ in_pc' = "loop" /\ in_sht' = 0
    /\ UNCHANGED <<eigvals, pinertia, expfacts, bcast_done>>
    /\ UNCHANGED <<hostVars, coeffVars, computeVars, contactVars>>
    /\ UNCHANGED <<expandVars, readerVars, layoutVars, legendreVars, oracleVars, lateVars>>

\* one pass of the loop at line 260
InertiaShape ==
    /\ in_pc = "loop" /\ in_sht < nshtypes
    /\ \E inertia \in EigenSet \X EigenSet \X EigenSet :
         /\ eigvals' = [eigvals EXCEPT ![in_sht] = inertia]
         /\ pinertia' = [pinertia EXCEPT ![in_sht] = ClampedInertia(inertia)]
    /\ in_sht' = in_sht + 1
    /\ UNCHANGED in_pc
    /\ UNCHANGED <<hostVars, coeffVars, computeVars, catalogVars, contactVars>>
    /\ UNCHANGED <<expandVars, readerVars, layoutVars, legendreVars, oracleVars, lateVars>>

InertiaEnd ==
    /\ in_pc = "loop" /\ in_sht = nshtypes
    /\ in_pc' = "done"
    /\ UNCHANGED <<in_sht, eigvals, pinertia>>
    /\ UNCHANGED <<hostVars, coeffVars, computeVars, catalogVars, contactVars>>
    /\ UNCHANGED <<expandVars, readerVars, layoutVars, legendreVars, oracleVars, lateVars>>

----------------------------------------------------------------------------
(* ComputeShcoeff::plegendre, plegendre_nn, plegendre_recycle *)

(* The routines take square roots, so their doubles are followed by class
   only: negative, zero or positive finite, finite of unknown sign ("fin"),
   the infinities, NaN, infinite-or-NaN ("nonfin"), and "any" where nothing
   is known.  Finite arithmetic is taken as exact (no overflow). *)
FiniteClasses == {"neg", "zero", "pos", "fin"}

SignedClasses == {"neg", "pos", "ninf", "pinf"}

ClassOf(q) ==
    IF IsNaN(q) THEN "nan"
    ELSE IF q[2] = 0 THEN (IF q[1] > 0 THEN "pinf" ELSE "ninf")
    ELSE IF q[1] < 0 THEN "neg"
    ELSE IF q[1] = 0 THEN "zero"
    ELSE "pos"

Positive(c) == c \in {"pos", "pinf"}

CNeg(a) ==
    CASE a = "neg" -> "pos" [] a = "pos" -> "neg"
      [] a = "ninf" -> "pinf" [] a = "pinf" -> "ninf"
      [] OTHER -> a

CMul(a, b) ==
    IF a = "nan" \/ b = "nan" THEN "nan"
    ELSE IF a = "any" \/ b = "any" THEN "any"
    ELSE IF a \in FiniteClasses /\ b \in FiniteClasses
    THEN (IF a = "zero" \/ b = "zero" THEN "zero"
          ELSE IF a = "fin" \/ b = "fin" THEN "fin"
          ELSE IF a = b THEN "pos" ELSE "neg")
    ELSE IF a = "zero" \/ b = "zero" THEN "nan"
    ELSE IF a \in SignedClasses /\ b \in SignedClasses
    THEN (IF Positive(a) = Positive(b) THEN "pinf" ELSE "ninf")
    ELSE "nonfin"

CDiv(a, b) ==
    IF a = "nan" \/ b = "nan" THEN "nan"
    ELSE IF a = "any" \/ b = "any" \/ b = "fin" THEN "any"
    ELSE IF b \in {"pinf", "ninf"}
    THEN (IF a \in FiniteClasses THEN "zero" ELSE "nan")
    ELSE IF b = "nonfin"
    THEN (IF a \in FiniteClasses THEN "any" ELSE "nan")
    ELSE IF b = "zero"
    THEN (IF a = "zero" THEN "nan"
          ELSE IF a \in {"pos", "pinf"} THEN "pinf"
          ELSE IF a \in {"neg", "ninf"} THEN "ninf"
          ELSE "nonfin")
    ELSE \* b is finite and not zero
         IF a \in {"zero", "fin", "nonfin"} THEN a
         ELSE IF a \in FiniteClasses
         THEN (IF a = b THEN "pos" ELSE "neg")
         ELSE (IF Positive(a) = Positive(b) THEN "pinf" ELSE "ninf")

CAdd(a, b) ==
    IF a = "nan" \/ b = "nan" THEN "nan"
    ELSE IF a = "any" \/ b = "any" THEN "any"
    ELSE IF a \in FiniteClasses /\ b \in FiniteClasses
    THEN (IF a = "zero" THEN b
          ELSE IF b = "zero" THEN a
          ELSE IF a = b /\ a # "fin" THEN a
          ELSE "fin")
    ELSE IF a \in FiniteClasses THEN b
    ELSE IF b \in FiniteClasses THEN a
    ELSE IF a = "nonfin" \/ b = "nonfin" THEN "nonfin"
    ELSE IF a = b THEN a ELSE "nan"

CSub(a, b) == CAdd(a, CNeg(b))

CSqrt(a) ==
    CASE a \in {"neg", "ninf"} -> "nan"
      [] a = "fin" -> "any"
      [] OTHER -> a

RAbs(q) == <<Abs(q[1]), q[2]>>

\* the arguments of the calls
LegendreDegrees == (-1)..MaxLegendreDegree

LegendreOrders == (-1)..(MaxLegendreDegree + 1)

LegendreArgs == {R(-2), R(-1), R(0), <<1, 2>>, R(1)}

LegendreValues == {"neg", "zero", "pos"}

\* lines 2553-2556: pmm after i passes of the loop
RECURSIVE PmmLoop(_, _, _, _)
PmmLoop(pmm, omx2, i, m) ==
    IF i > m THEN pmm
    ELSE PmmLoop(CMul(pmm, CDiv(CMul(omx2, "pos"), "pos")), omx2, i + 1, m)

\* line 2570 (and 2603): sqrt((4 l^2 - 1) / (l^2 - m^2))
RecurrenceFact(deg, m) == CSqrt(ClassOf(Norm(4 * deg * deg - 1, deg * deg - m * m)))

\* lines 2569-2575, from degree deg on
RECURSIVE PllLoop(_, _, _, _, _, _, _)
PllLoop(deg, l, m, cx, pmm, pmmp1, oldfact) ==
    LET fact == RecurrenceFact(deg, m)
        pll == CMul(CSub(CMul(cx, pmmp1), CDiv(pmm, oldfact)), fact)
    IN  IF deg = l THEN pll
        ELSE PllLoop(deg + 1, l, m, cx, pmmp1, pll, fact)

\* line 2549
PlegendreGuard(l, m, arg) == m < 0 \/ m > l \/ RLess(R(1), RAbs(arg))

\* lines 2545-2579
Plegendre(l, m, arg) ==
    IF PlegendreGuard(l, m, arg) THEN "error"
    ELSE LET omx2 == ClassOf(RMul(RSub(R(1), arg), RAdd(R(1), arg)))
             pmm0 == IF m > 0 THEN PmmLoop("pos", omx2, 1, m) ELSE "pos"
             pmm1 == CSqrt(CDiv(CMul("pos", pmm0), "pos"))
             pmm == IF m % 2 = 1 THEN CNeg(pmm1) ELSE pmm1
             pmmp1 == CMul(CMul(ClassOf(arg), "pos"), pmm)
         IN  IF l = m THEN pmm
             ELSE IF l = m + 1 THEN pmmp1
             ELSE PllLoop(m + 2, l, m, ClassOf(arg), pmm, pmmp1, "pos")

\* lines 2584-2594
PlegendreNN(l, arg, Pnm_nn) ==
    LET llm1 == 2 * (l - 1)
    IN  IF RLess(R(1), RAbs(arg)) THEN "error"
        ELSE LET fact == CSqrt(ClassOf(Norm(llm1 + 3, llm1 + 2)))
                 root == CSqrt(ClassOf(RSub(R(1), RMul(arg, arg))))
             IN  CMul(CMul(CNeg(root), fact), Pnm_nn)

\* lines 2597-2607
PlegendreRecycle(l, m, arg, pnm_m1, pnm_m2) ==
    LET fact == RecurrenceFact(l, m)
        oldfact == RecurrenceFact(l - 1, m)
    IN  CMul(CSub(CMul(ClassOf(arg), pnm_m1), CDiv(pnm_m2, oldfact)), fact)

InitLegendre ==
    /\ lg_fn = "none"
    /\ lg_l = 0 /\ lg_m = 0 /\ lg_x = R(0)
    /\ lg_p1 = "zero" /\ lg_p2 = "zero"
    /\ lg_out = "none"

CallPlegendre ==
    /\ \E l \in LegendreDegrees, m \in LegendreOrders, xx \in LegendreArgs :
         /\ lg_l' = l /\ lg_m' = m /\ lg_x' = xx
         /\ lg_out' = Plegendre(l, m, xx)
    /\ lg_fn' = "plegendre"
    /\ lg_p1' = "zero" /\ lg_p2' = "zero"
    /\ UNCHANGED <<hostVars, coeffVars, computeVars, catalogVars, contactVars>>
    /\ UNCHANGED <<expandVars, readerVars, layoutVars, inertiaVars, oracleVars, lateVars>>

CallPlegendreNN ==
    /\ \E l \in LegendreDegrees, xx \in LegendreArgs, p \in LegendreValues :
         /\ lg_l' = l /\ lg_m' = l /\ lg_x' = xx /\ lg_p1' = p
         /\ lg_out' = PlegendreNN(l, xx, p)
    /\ lg_fn' = "plegendre_nn"
    /\ lg_p2' = "zero"
    /\ UNCHANGED <<hostVars, coeffVars, computeVars, catalogVars, contactVars>>
    /\ UNCHANGED <<expandVars, readerVars, layoutVars, inertiaVars, oracleVars, lateVars>>

CallPlegendreRecycle ==
    /\ \E l \in LegendreDegrees, m \in LegendreOrders, xx \in LegendreArgs,
          p1 \in LegendreValues, p2 \in LegendreValues :
         /\ lg_l' = l /\ lg_m' = m /\ lg_x' = xx /\ lg_p1' = p1 /\ lg_p2' = p2
         /\ lg_out' = PlegendreRecycle(l, m, xx, p1, p2)
    /\ lg_fn' = "plegendre_recycle"
    /\ UNCHANGED <<hostVars, coeffVars, computeVars, catalogVars, contactVars>>
    /\ UNCHANGED <<expandVars, readerVars, layoutVars, inertiaVars, oracleVars, lateVars>>

----------------------------------------------------------------------------
(* The routines called once process_args has returned *)

\* get_coefficients lines 1542-1549 as a change of the pair (row sht of
\* shcoeffs_byshape, the caller's buffer), variant: the copy goes from the
\* buffer to the table
GetCoefficientsReversed(row, buf) ==
    [table |-> [e \in Slots |->
                  IF \E n \in Degrees, m \in Degrees :
                        m <= n /\ e \in {CoefficientsLoc(n, m), CoefficientsLoc(n, m) + 1}
                  THEN buf[e] ELSE row[e]],
     coeff |-> buf]

\* get_coefficients lines 1542-1549
GetCoefficientsEffect(row, buf) ==
    [table |-> row,
     coeff |-> [e \in Slots |->
                  IF \E n \in Degrees, m \in Degrees :
                        m <= n /\ e \in {CoefficientsLoc(n, m), CoefficientsLoc(n, m) + 1}
                  THEN row[e] ELSE buf[e]]]

\* doRotate lines 1510-1512: the coefficient of (n, mp) taken from coeffin,
\* conjugated and signed for mp < 0; part 0 is the real part, 1 the imaginary
RotateInput(coeffin, n, mp, part) ==
    LET v == coeffin[RotateLookupLoc(n, mp) + part]
        sgn == IF Abs(mp) % 2 = 1 THEN -1 ELSE 1
    IN  IF mp >= 0 THEN v
        ELSE IF part = 0 THEN RMul(R(sgn), v)
        ELSE RMul(R(-sgn), v)

\* doRotate lines 1502-1521: aa[n][m+n][part], for the rotation whose matrix
\* elements and phase factors are all 1
RECURSIVE RotateSum(_, _, _, _)
RotateSum(coeffin, n, mp, part) ==
    IF mp > n THEN R(0)
    ELSE RAdd(RotateInput(coeffin, n, mp, part), RotateSum(coeffin, n, mp + 1, part))

\* doRotate lines 1524-1531
RotateOutput(coeffin) ==
    [e \in Slots |->
        LET nm == CHOOSE p \in Degrees \X Degrees :
                      p[2] <= p[1] /\ e \in {RotateStoreLoc(p[1], p[2]), RotateStoreLoc(p[1], p[2]) + 1}
        IN  RotateSum(coeffin, nm[1], -nm[1], e - RotateStoreLoc(nm[1], nm[2]))]

InitBuffers ==
    /\ or_rad = Unset
    /\ coeff = [e \in Slots |-> Unset]
    /\ coeffout = [e \in Slots |-> Unset]

\* get_shape_radius(sht, theta, phi) in a direction in which the harmonics of
\* order 0 weigh 1 and the others 0
OracleRadius ==
    /\ bcast_done
    /\ \E sht \in Shapes :
         /\ sht < nshtypes
         /\ or_rad' = GetShapeRadius([n \in Degrees |-> shcoeffs[sht][RadiusLoc(n, 0)]])
    /\ UNCHANGED <<coeff, coeffout, layoutVars, inertiaVars, legendreVars, lateVars>>
    /\ UNCHANGED <<hostVars, coeffVars, computeVars, catalogVars, contactVars>>
    /\ UNCHANGED <<expandVars, readerVars>>

\* check_contact on rank 0 at distance 1, in the direction of OracleRadius
OracleContact ==
    \E sht \in Shapes :
        CheckContactCall(0, sht, R(1), [n \in Degrees |-> shcoeffs[sht][RadiusLoc(n, 0)]])

\* get_coefficients(sht, coeff)
GetCoefficients ==
    /\ bcast_done
    /\ \E sht \in Shapes :
         /\ sht < nshtypes
         /\ \E res \in {GetCoefficientsEffect(shcoeffs[sht], coeff)} :
              /\ shcoeffs' = [shcoeffs EXCEPT ![sht] = res.table]
              /\ coeff' = res.coeff
    /\ UNCHANGED <<or_rad, coeffout, layoutVars, inertiaVars, legendreVars, lateVars>>
    /\ UNCHANGED <<hostVars, coeffVars, computeVars, catalogVars, contactVars>>
    /\ UNCHANGED <<expandVars, rd_pc, rd_shape, rd_records, rd_oob>>

\* doRotate(coeff, coeffout, alpha, beta, gamma) on a buffer that
\* get_coefficients has filled
DoRotate ==
    /\ bcast_done
    /\ \A e \in Slots : coeff[e] # Unset
    /\ coeffout' = RotateOutput(coeff)
    /\ UNCHANGED <<or_rad, coeff, layoutVars, inertiaVars, legendreVars, lateVars>>
    /\ UNCHANGED <<hostVars, coeffVars, computeVars, catalogVars, contactVars>>
    /\ UNCHANGED <<expandVars, readerVars>>

----------------------------------------------------------------------------
(* PairSH::calc_force_torque: the bisection along the ray of a contacting
   quadrature node.  Where the sampled point lies (outside the bounding
   sphere of j, inside j, outside j) is an input of each pass. *)

\* line 1613
radius_tol == <<1, 1000>>

\* the argument radi is maxrad_byshape of particle i (line 1694)
RadiSet == {R(r) : r \in 1..MaxRad}

\* rad_body as a multiple of radi
RadBodyFactors == {<<1, 2>>, R(1), R(2)}

\* variant: the sample is taken a third of the way up
MidpointThird(upper, lower) == RDiv(RAdd(upper, RMul(R(2), lower)), R(3))

\* lines 2135 and 2156
Midpoint(upper, lower) == RDiv(RAdd(upper, lower), R(2))

InitBisect ==
    /\ bs_pc = "idle"
    /\ bs_radi = R(1) /\ rad_body = R(0) /\ radtol = R(0)
    /\ upper_bound = R(0) /\ lower_bound = R(0) /\ rad_sample = R(0)
    /\ bs_iter = 0

\* lines 2087 and 2132-2135: check_contact has answered true for the node
BisectBegin ==
    /\ bs_pc = "idle"
    /\ \E r \in RadiSet, fct \in RadBodyFactors :
         /\ bs_radi' = r
         /\ radtol' = RMul(radius_tol, r)
         /\ rad_body' = RMul(fct, r)
         /\ upper_bound' = RMul(fct, r)
         /\ lower_bound' = R(0)
         /\ rad_sample' = Midpoint(RMul(fct, r), R(0))
    /\ bs_iter' = 0
    /\ bs_pc' = "loop"
    /\ UNCHANGED <<earlyVars, stencilVars, shcoeffVars, rotateVars, bufferVars>>

\* one pass of the while loop, lines 2136-2157
BisectStep ==
    /\ bs_pc = "loop"
    /\ RLess(radtol, RSub(upper_bound, lower_bound))
    /\ \E inside \in BOOLEAN :
         /\ upper_bound' = (IF inside THEN rad_sample ELSE upper_bound)
         /\ lower_bound' = (IF inside THEN lower_bound ELSE rad_sample)
    /\ rad_sample' = Midpoint(upper_bound', lower_bound')
    /\ bs_iter' = bs_iter + 1
    /\ UNCHANGED <<bs_pc, bs_radi, rad_body, radtol>>
    /\ UNCHANGED <<earlyVars, stencilVars, shcoeffVars, rotateVars, bufferVars>>

\* the loop condition at line 2136 fails; line 2159 uses rad_sample
BisectEnd ==
    /\ bs_pc = "loop"
    /\ ~RLess(radtol, RSub(upper_bound, lower_bound))
    /\ bs_pc' = "done"
    /\ UNCHANGED <<bs_radi, rad_body, radtol, upper_bound, lower_bound, rad_sample, bs_iter>>
    /\ UNCHANGED <<earlyVars, stencilVars, shcoeffVars, rotateVars, bufferVars>>

----------------------------------------------------------------------------
(* NStencilFullMulti3d::create.  Bins have unit size; the bin grid is at
   least as wide as the stencil (mbinx >= 2 sx + 1, mbiny >= 2 sy + 1). *)

\* one term of NStencil::bin_distance: the gap between bin 0 and bin d
BinGap(d) == IF d > 0 THEN d - 1 ELSE IF d = 0 THEN 0 ELSE d + 1

\* NStencil::bin_distance, the squared distance between the closest points
\* of two bins
BinDistance(di, dj, dk) ==
    BinGap(di) * BinGap(di) + BinGap(dj) * BinGap(dj) + BinGap(dk) * BinGap(dk)

\* line 46
BinOffset(di, dj, dk, my, mx) == dk * my * mx + dj * mx + di

\* variant: bins at exactly the cutoff are taken too
InStencilClosed(rsq, typesq) == rsq <= typesq

\* line 44
InStencil(rsq, typesq) == rsq < typesq

\* lines 40-42: the idx-th triple (i, j, k) the loops visit, i running
\* fastest
LoopTriple(idx, ex, ey, ez) ==
    <<(idx % (2 * ex + 1)) - ex,
      ((idx \div (2 * ex + 1)) % (2 * ey + 1)) - ey,
      (idx \div ((2 * ex + 1) * (2 * ey + 1))) - ez>>

\* lines 40-48: the entries stored by the loops over k, j, i, in the order
\* in which they are stored
StencilLoop(ex, ey, ez, mx, my, typesq) ==
    LET total == (2 * ex + 1) * (2 * ey + 1) * (2 * ez + 1)
        Stored(idx) ==
            LET q == LoopTriple(idx, ex, ey, ez)
            IN  InStencil(BinDistance(q[1], q[2], q[3]), typesq)
        kept == SelectSeq([n \in 1..total |-> n - 1], Stored)
    IN  [s |-> [n \in 1..Len(kept) |->
                   LET q == LoopTriple(kept[n], ex, ey, ez)
                   IN  BinOffset(q[1], q[2], q[3], my, mx)],
         distsq |-> [n \in 1..Len(kept) |->
                   LET q == LoopTriple(kept[n], ex, ey, ez)
                   IN  BinDistance(q[1], q[2], q[3])]]

StencilExtents == 0..MaxStencil

CutoffSet == 0..(MaxStencil + 1)

InitStencil ==
    /\ st_pc = "idle" /\ itype = 1
    /\ sx = 0 /\ sy = 0 /\ sz = 0 /\ mbinx = 1 /\ mbiny = 1
    /\ cuttypesq = [t \in Types |-> 0]
    /\ stencil_multi = [t \in Types |-> <<>>]
    /\ distsq_multi = [t \in Types |-> <<>>]
    /\ nstencil_multi = [t \in Types |-> -1]

\* the state NStencil::create_setup leaves, and line 35
StencilBegin ==
    /\ st_pc = "idle"
    /\ sx' \in StencilExtents /\ sy' \in StencilExtents /\ sz' \in StencilExtents
    /\ \E pad \in {0, 1} : mbinx' = 2 * sx' + 1 + pad /\ mbiny' = 2 * sy' + 1 + pad
    /\ cuttypesq' \in [Types -> CutoffSet]
    /\ itype' = 1
    /\ st_pc' = "loop"
    /\ UNCHANGED <<stencil_multi, distsq_multi, nstencil_multi>>
    /\ UNCHANGED <<earlyVars, bisectVars, shcoeffVars, rotateVars, bufferVars>>

\* one pass of the loop over itype, lines 35-50
StencilType ==
    /\ st_pc = "loop" /\ itype <= Cardinality(Types)
    /\ \E res \in {StencilLoop(sx, sy, sz, mbinx, mbiny, cuttypesq[itype])} :
         /\ stencil_multi' = [stencil_multi EXCEPT ![itype] = res.s]
         /\ distsq_multi' = [distsq_multi EXCEPT ![itype] = res.distsq]
         /\ nstencil_multi' = [nstencil_multi EXCEPT ![itype] = Len(res.s)]
    /\ itype' = itype + 1
    /\ UNCHANGED <<st_pc, sx, sy, sz, mbinx, mbiny, cuttypesq>>
    /\ UNCHANGED <<earlyVars, bisectVars, shcoeffVars, rotateVars, bufferVars>>

StencilEnd ==
    /\ st_pc = "loop" /\ itype > Cardinality(Types)
    /\ st_pc' = "done"
    /\ UNCHANGED <<itype, sx, sy, sz, mbinx, mbiny, cuttypesq,
                   stencil_multi, distsq_multi, nstencil_multi>>
    /\ UNCHANGED <<earlyVars, bisectVars, shcoeffVars, rotateVars, bufferVars>>

----------------------------------------------------------------------------
(* ComputeShcoeff::read_coeffs and parse on one coefficient file *)

\* line 2346, for the degree of the model
size_array_cols == (maxshexpan + 1) * (maxshexpan + 2)

\* the lines of a file: a comment (or blank) line, the header with a count
\* that fits or not, lines of 2, 3 or 5 numbers, lines of 4 numbers with
\* m < 0 and m >= 0
FileLines ==
    {[kind |-> "comment", words |-> 0, val |-> 0]}
        \cup {[kind |-> "header", words |-> 1, val |-> v] :
                v \in {size_array_cols, size_array_cols + 1}}
        \cup {[kind |-> "short", words |-> w, val |-> 0] : w \in {2, 3}}
        \cup {[kind |-> "long", words |-> 5, val |-> 0]}
        \cup {[kind |-> "data", words |-> 4, val |-> m] : m \in {-1, 0}}

\* parse, lines 2769-2831: the number of words lnarg and whether larg[0] is
\* NULL.  For a line without a word nextword returns NULL and leaves next
\* unset (line 2850), so the loop at 2819 starts from an indeterminate
\* pointer: it finds no further word, or up to four stray ones.
ParseOutcomes(line) ==
    IF line.words > 0
    THEN {[lnarg |-> line.words, larg_null |-> FALSE]}
    ELSE {[lnarg |-> k, larg_null |-> TRUE] : k \in 1..5}

\* array is one block of size_array_rows * size_array_cols doubles (2348)
InArray(rows, idx) == 0 <= idx /\ idx < rows * size_array_cols

\* lines 2719-2720 for file 0, on the part of the block that exists
StoreData(arr, idx, v1, v2) ==
    [e \in DOMAIN arr |->
        IF e = idx THEN v1 ELSE IF e = idx + 1 THEN v2 ELSE arr[e]]

InitShcoeff ==
    /\ rc_pc = "idle"
    /\ rc_line = [kind |-> "none", words |-> 0, val |-> 0]
    /\ lnarg = 0 /\ larg_null = FALSE
    /\ size_array_rows = 1
    /\ curentry = 0
    /\ array = [e \in 0..(size_array_cols - 1) |-> Unset]
    /\ rc_oob = FALSE

\* the constructor, lines 2343-2352, and read_coeffs(char *), line 2629,
\* for the first file
ShcoeffBegin ==
    /\ rc_pc = "idle"
    /\ \E rows \in {1, 2} :
         /\ size_array_rows' = rows
         /\ array' = [e \in 0..(rows * size_array_cols - 1) |-> Unset]
    /\ curentry' = 0
    /\ rc_pc' = "reading"
    /\ UNCHANGED <<rc_line, lnarg, larg_null, rc_oob>>
    /\ UNCHANGED <<earlyVars, bisectVars, stencilVars, rotateVars, bufferVars>>

\* one pass of the loop of read_coeffs, lines 2643-2727, for a line that
\* the file still holds
ShcoeffLine ==
    /\ rc_pc = "reading"
    /\ curentry < size_array_cols + 2 * MaxOverflow
    /\ \E line \in FileLines : \E parsed \in ParseOutcomes(line) :
         /\ rc_line' = line
         /\ lnarg' = parsed.lnarg /\ larg_null' = parsed.larg_null
         /\ IF parsed.lnarg = 1
            THEN \* utils::numeric stops on NULL; line 2712
                 /\ rc_pc' = (IF parsed.larg_null \/ line.val > size_array_cols
                              THEN "error" ELSE "reading")
                 /\ UNCHANGED <<curentry, array, rc_oob>>
            ELSE IF parsed.lnarg = 4
            THEN \* larg[1..3] of a wordless line are stray text: not a
                 \* number (error), or an order and two values
                 \E stray \in (IF parsed.larg_null
                               THEN {"error", "skip", "store"}
                               ELSE {IF line.val >= 0 THEN "store" ELSE "skip"}) :
                    IF stray = "error"
                    THEN rc_pc' = "error" /\ UNCHANGED <<curentry, array, rc_oob>>
                    ELSE IF stray = "skip"
                    THEN UNCHANGED <<rc_pc, curentry, array, rc_oob>>
                    ELSE /\ curentry' = curentry + 2
                         /\ IF InArray(size_array_rows, curentry + 1)
                            THEN /\ array' = StoreData(array, curentry, R(1), R(2))
                                 /\ UNCHANGED <<rc_pc, rc_oob>>
                            ELSE /\ rc_oob' = TRUE
                                 /\ rc_pc' \in {"reading", "crashed"}
                                 /\ UNCHANGED array
            ELSE /\ rc_pc' = "error"
                 /\ UNCHANGED <<curentry, array, rc_oob>>
    /\ UNCHANGED size_array_rows
    /\ UNCHANGED <<earlyVars, bisectVars, stencilVars, rotateVars, bufferVars>>

\* fgets returns NULL: n = 0 and the loop ends, lines 2656-2690
ShcoeffEof ==
    /\ rc_pc = "reading"
    /\ rc_pc' = "eof"
    /\ UNCHANGED <<rc_line, lnarg, larg_null, size_array_rows, curentry, array, rc_oob>>
    /\ UNCHANGED <<earlyVars, bisectVars, stencilVars, rotateVars, bufferVars>>

----------------------------------------------------------------------------
(* AtomVecSpherharm::doRotate: the recursion for the elements d^n_{m',m} of
   the rotation about beta, and the sum over m' with the phase factors.  The
   trigonometric factors cms, sc, ss, cc are finite; a coefficient of the
   recursion is kept as the numerator and denominator under its root. *)

\* the cases of beta that lines 1403-1410 tell apart: sin(beta/2) = 0,
\* cos(beta/2) = 0, neither
BetaCases == {"zero", "pi", "other"}

\* lines 1403-1410: the number of times beta is moved by 1e-10
NudgeCount(b) == IF b = "other" THEN 0 ELSE 1

\* the loops "for n / for m = -n..n / for mp = -n..n": the pass after (n, m, mp)
NextPass(n, m, mp) ==
    IF mp < n THEN <<n, m, mp + 1>>
    ELSE IF m < n THEN <<n, m + 1, -n>>
    ELSE <<n + 1, -(n + 1), -(n + 1)>>

\* lines 1434-1450: the elements of degree 0 and 1 written by the seed
SeedElements ==
    {<<n, mp, m>> : n \in {d \in 0..1 : d <= maxshexpan},
                    mp \in -1..1, m \in -1..1} \cap
        {e \in (0..1) \X (-1..1) \X (-1..1) : Abs(e[2]) <= e[1] /\ Abs(e[3]) <= e[1]}

\* under the roots of a and c (lines 1468, 1477, 1485)
NumDiag(n, m) == (n + m) * (n - m)

\* variant: the product that belongs to the element of order m+1
NumLowerShifted(n, m) == (n + m) * (n + m + 1)

\* under the roots of b and d (lines 1469, 1478, 1486)
NumLower(n, m) == (n + m) * (n + m - 1)

\* under the roots of nb and nd (lines 1470, 1479, 1487)
NumUpper(n, m) == (n - m) * (n - m - 1)

\* lines 1467-1491: the denominator and the first-index order of the branch
BranchOf(n, mp) ==
    IF mp > -n /\ mp < n
    THEN [den |-> (n + mp) * (n - mp), first |-> mp]
    ELSE IF mp = -n
    THEN [den |-> (n - mp) * (n - mp - 1), first |-> mp + 1]
    ELSE [den |-> (n + mp) * (n + mp - 1), first |-> mp - 1]

\* lines 1467-1491: the three elements of degree n-1 read for (n, m, mp),
\* each with the numerator and denominator of its coefficient
WignerReads(n, m, mp) ==
    LET br == BranchOf(n, mp)
        read(num, second) ==
            [n |-> n, m |-> m, mp |-> mp, num |-> num, den |-> br.den,
             first |-> br.first, second |-> second]
    IN  <<read(NumDiag(n, m), m), read(NumLower(n, m), m - 1), read(NumUpper(n, m), m + 1)>>

\* lines 1502-1521: the term added to aa[n][m+n]: the integers multiplying
\* alpha and gamma in aarg and garg, the element of dterm, the entry of
\* coeffin, and the sign and conjugation applied to it
PhaseTerm(n, m, mp) ==
    [n |-> n, m |-> m, mp |-> mp,
     alpha |-> mp, gamma |-> mp,
     d |-> <<n, mp, m>>,
     mloc |-> (n + 1) * (n + 2) - 2 - 2 * Abs(mp),
     conj |-> mp < 0,
     sign |-> IF mp < 0 /\ Abs(mp) % 2 = 1 THEN -1 ELSE 1]

InitRotate ==
    /\ rt_pc = "idle"
    /\ rt_n = 0 /\ rt_m = 0 /\ rt_mp = 0
    /\ beta = "other" /\ beta_nudges = 0
    /\ dterm = {}
    /\ rt_reads = <<>>
    /\ aa = {}

\* lines 1394-1450: aa is cleared, beta nudged, dterm created and seeded
RotateBegin ==
    /\ rt_pc = "idle"
    /\ \E b \in BetaCases : beta' = b /\ beta_nudges' = NudgeCount(b)
    /\ aa' = {}
    /\ dterm' = SeedElements
    /\ rt_reads' = <<>>
    /\ IF maxshexpan >= 2
       THEN rt_pc' = "recursion" /\ rt_n' = 2 /\ rt_m' = -2 /\ rt_mp' = -2
       ELSE rt_pc' = "sum" /\ rt_n' = 0 /\ rt_m' = 0 /\ rt_mp' = 0
    /\ UNCHANGED <<earlyVars, bisectVars, stencilVars, shcoeffVars, bufferVars>>

\* one pass of the loops at 1461-1495
WignerStep ==
    /\ rt_pc = "recursion"
    /\ rt_reads' = WignerReads(rt_n, rt_m, rt_mp)
    /\ dterm' = dterm \cup {<<rt_n, rt_mp, rt_m>>}
    /\ \E nxt \in {NextPass(rt_n, rt_m, rt_mp)} :
         IF nxt[1] <= maxshexpan
         THEN rt_n' = nxt[1] /\ rt_m' = nxt[2] /\ rt_mp' = nxt[3] /\ UNCHANGED rt_pc
         ELSE rt_pc' = "sum" /\ rt_n' = 0 /\ rt_m' = 0 /\ rt_mp' = 0
    /\ UNCHANGED <<beta, beta_nudges, aa>>
    /\ UNCHANGED <<earlyVars, bisectVars, stencilVars, shcoeffVars, bufferVars>>

\* one pass of the loops at 1502-1522
PhaseStep ==
    /\ rt_pc = "sum"
    /\ aa' = aa \cup {PhaseTerm(rt_n, rt_m, rt_mp)}
    /\ \E nxt \in {NextPass(rt_n, rt_m, rt_mp)} :
         IF nxt[1] <= maxshexpan
         THEN rt_n' = nxt[1] /\ rt_m' = nxt[2] /\ rt_mp' = nxt[3] /\ UNCHANGED rt_pc
         ELSE rt_pc' = "store" /\ UNCHANGED <<rt_n, rt_m, rt_mp>>
    /\ UNCHANGED <<beta, beta_nudges, dterm, rt_reads>>
    /\ UNCHANGED <<earlyVars, bisectVars, stencilVars, shcoeffVars, bufferVars>>

\* lines 1524-1534: aa is copied to coeffout and freed
RotateEnd ==
    /\ rt_pc = "store"
    /\ rt_pc' = "idle"
    /\ UNCHANGED <<rt_n, rt_m, rt_mp, beta, beta_nudges, dterm, rt_reads, aa>>
    /\ UNCHANGED <<earlyVars, bisectVars, stencilVars, shcoeffVars, bufferVars>>

----------------------------------------------------------------------------
(* The rolling Legendre buffers of check_contact, get_shape_radius,
   get_shape_radius_and_normal and get_shape_radius_and_gradients.  A value
   is named by the pair <<l, m>> of the P_{l,m} it is. *)

OracleLoops == {"check_contact", "get_shape_radius", "get_shape_radius_and_normal",
                "get_shape_radius_and_gradients"}

\* the 0.0 of resize (lines 704-705, 781-782)
ZeroFill == <<-1, -1>>

\* the value of the local Pnm_nn before n = 2 has set it (lines 702, 778)
Indeterminate == <<-2, -2>>

\* a value that is no P_{l,m}
NoLegendre == <<-3, -3>>

\* plegendre_recycle, lines 2597-2607: P_{l,m} from P_{l-1,m} and P_{l-2,m}
RecycleValue(l, mm, pnm_m1, pnm_m2) ==
    IF pnm_m1 = <<l - 1, mm>> /\ pnm_m2 = <<l - 2, mm>> THEN <<l, mm>> ELSE NoLegendre

\* plegendre_nn, lines 2584-2594: P_{l,l} from P_{l-1,l-1}
DiagonalValue(l, pnn) ==
    IF pnn = <<l - 1, l - 1>> THEN <<l, l>> ELSE NoLegendre

\* lines 736, 819: x sqrt(2(n-1)+3) Pnm_nn is P_{n,n-1} when Pnm_nn is P_{n-1,n-1}
NearDiagonalValue(n, pnn) ==
    IF pnn = <<n - 1, n - 1>> THEN <<n, n - 1>> ELSE NoLegendre

\* variant: the loop over m runs up to n-1
RecycleOrdersWide(n) == 0..(n - 1)

\* lines 720 and 726, 803 and 809: the orders given to plegendre_recycle
RecycleOrders(n) == {0} \cup {mm \in 1..n : mm < n - 1}

\* the buffer indices used for degree n (lines 710-745, 788-828)
BufferIndices(n) ==
    IF n = 1 THEN {0, 1}
    ELSE IF n = 2 THEN {0, 1, 2}
    ELSE RecycleOrders(n) \cup {n - 1, n}

\* buf[idx] = v on a buffer of the given size
BufferStore(buf, idx, v) ==
    IF idx \in DOMAIN buf THEN [buf EXCEPT ![idx] = v] ELSE buf

BufferLoad(buf, idx) == IF idx \in DOMAIN buf THEN buf[idx] ELSE NoLegendre

\* the body of the loop for degree n (lines 708-746, 786-829): the buffers
\* and Pnm_nn after it, and the calls of plegendre_recycle it made
DegreeBody(n, m1, m2, pnn) ==
    IF n = 1
    THEN [m1 |-> m1,
          m2 |-> BufferStore(BufferStore(m2, 0, <<1, 0>>), 1, <<1, 1>>),
          nn |-> pnn, calls |-> {}]
    ELSE IF n = 2
    THEN [m1 |-> BufferStore(BufferStore(BufferStore(m1, 0, <<2, 0>>), 2, <<2, 2>>),
                             1, <<2, 1>>),
          m2 |-> m2, nn |-> <<2, 2>>, calls |-> {}]
    ELSE LET orders == RecycleOrders(n)
             loop1 == [e \in DOMAIN m1 |->
                          IF e \in orders
                          THEN RecycleValue(n, e, m1[e], m2[e]) ELSE m1[e]]
             loop2 == [e \in DOMAIN m2 |-> IF e \in orders THEN m1[e] ELSE m2[e]]
             near2 == BufferStore(loop2, n - 1, BufferLoad(loop1, n - 1))
             near1 == BufferStore(loop1, n - 1, NearDiagonalValue(n, pnn))
             diag  == DiagonalValue(n, pnn)
         IN  [m1 |-> BufferStore(near1, n, diag),
              m2 |-> near2,
              nn |-> diag,
              calls |-> {[l |-> n, m |-> e, pnm_m1 |-> BufferLoad(m1, e),
                          pnm_m2 |-> BufferLoad(m2, e)] : e \in orders}]

InitRolling ==
    /\ pb_pc = "idle"
    /\ pb_fn = "get_shape_radius"
    /\ pb_nmax = 0 /\ pb_n = 1
    /\ Pnm_m1 = [e \in 0..0 |-> ZeroFill]
    /\ Pnm_m2 = [e \in 0..0 |-> ZeroFill]
    /\ pb_nn = Indeterminate
    /\ pb_calls = {}
    /\ pb_oob = FALSE

\* the entry of one of the functions, lines 689-706 and 773-784; check_contact
\* may return before the loop (line 696)
BufferBegin ==
    /\ pb_pc = "idle"
    /\ \E fn \in OracleLoops : \E nmax \in 0..MaxBufferDegree :
         /\ pb_fn' = fn
         /\ pb_nmax' = nmax
         /\ Pnm_m1' = [e \in 0..nmax |-> ZeroFill]
         /\ Pnm_m2' = [e \in 0..nmax |-> ZeroFill]
         /\ pb_pc' \in (IF fn = "check_contact" THEN {"loop", "idle"} ELSE {"loop"})
    /\ pb_nn' = Indeterminate
    /\ pb_n' = 1
    /\ pb_calls' = {}
    /\ pb_oob' = FALSE
    /\ UNCHANGED <<earlyVars, bisectVars, stencilVars, shcoeffVars, rotateVars>>

\* one degree of the loop; check_contact may return after it (line 750)
BufferDegree ==
    /\ pb_pc = "loop"
    /\ pb_n <= pb_nmax
    /\ \E res \in {DegreeBody(pb_n, Pnm_m1, Pnm_m2, pb_nn)} :
         /\ Pnm_m1' = res.m1
         /\ Pnm_m2' = res.m2
         /\ pb_nn' = res.nn
         /\ pb_calls' = res.calls
    /\ pb_oob' = (pb_oob \/ ~(BufferIndices(pb_n) \subseteq 0..pb_nmax))
    /\ pb_n' = pb_n + 1
    /\ pb_pc' \in (IF pb_fn = "check_contact" THEN {"loop", "idle"} ELSE {"loop"})
    /\ UNCHANGED <<pb_fn, pb_nmax>>
    /\ UNCHANGED <<earlyVars, bisectVars, stencilVars, shcoeffVars, rotateVars>>

\* the loop is left at n > maxshexpan and the function returns
BufferEnd ==
    /\ pb_pc = "loop"
    /\ pb_n > pb_nmax
    /\ pb_pc' = "idle"
    /\ UNCHANGED <<pb_fn, pb_nmax, pb_n, Pnm_m1, Pnm_m2, pb_nn, pb_calls, pb_oob>>
    /\ UNCHANGED <<earlyVars, bisectVars, stencilVars, shcoeffVars, rotateVars>>

----------------------------------------------------------------------------
(* Specifications *)

\* the routines outside the shape catalog, not yet called
InitLate == InitBisect /\ InitStencil /\ InitShcoeff /\ InitRotate /\ InitRolling

\* the shape tables before process_args has built them
InitShapeTables == InitExpand /\ InitReader /\ InitLayout /\ InitInertia /\ InitLegendre
                   /\ InitBuffers /\ InitLate

\* the state pair_coeff * * k m and init_one leave behind
CoeffDone ==
    /\ exponent \in {1, 2}
    /\ \E k \in {MaxK} :
         /\ normal_coeffs = [tp \in TypePairs |-> R(k)]
         /\ coeff_k = [tp \in TypePairs |-> IF tp \in UpperPairs THEN R(k) ELSE Unset]
    /\ coeff_exps = {exponent}
    /\ setflag = [tp \in TypePairs |-> IF tp \in UpperPairs THEN 1 ELSE 0]
    /\ cut = [tp \in TypePairs |->
                IF tp \in UpperPairs
                THEN RAdd(max_rad[MatchType[tp[1]]], max_rad[MatchType[tp[2]]])
                ELSE Unset]
    /\ matchtypes = 1
    /\ typetosh = MatchType
    /\ inited = UpperPairs
    /\ ncoeff = 1

\* one call of PairSH::compute on a set-up run
Init == InitPair /\ CoeffDone /\ InitCatalog /\ InitContact /\ InitShapeTables

Next == AtomBegin \/ PairStart \/ RefineSample \/ PairForce \/ PairNext
           \/ AtomEnd \/ ComputeEnd

Spec == Init /\ [][Next]_vars

\* pair_coeff commands, Pair::init, then penalties of contacting pairs
InitSetup ==
    /\ x = [a \in Atoms |-> zero3]
    /\ f = [a \in Atoms |-> zero3]
    /\ torque = [a \in Atoms |-> zero3]
    /\ firstneigh = [a \in LocalAtoms |-> <<>>]
    /\ newton_pair = TRUE
    /\ max_rad \in [Shapes -> {R(r) : r \in 1..MaxRad}]
    /\ pc = "setup" /\ ii = 0 /\ jj = 0
    /\ delvec = zero3 /\ kk_count = -1 /\ candidates_found = FALSE
    /\ vol_overlap = R(0) /\ iforce = zero3 /\ torsum = zero3
    /\ fpair = R(0) /\ pn = R(0) /\ pen_types = <<1, 1>>
    /\ xcont = zero3 /\ tor_a = zero3
    /\ kk = 0 /\ ll = 0 /\ rings_missed = {} /\ cap_abscissa = R(0)
    /\ f_pre = f /\ torque_pre = torque
    /\ InitCoeff /\ InitCatalog /\ InitContact /\ InitShapeTables

NextCoeff == Coeff \/ InitOne \/ ComputePenalty

SpecCoeff == InitSetup /\ [][NextCoeff]_vars

\* process_args on all ranks, then a call of check_contact
InitShapes ==
    /\ x = [a \in Atoms |-> zero3]
    /\ f = [a \in Atoms |-> zero3]
    /\ torque = [a \in Atoms |-> zero3]
    /\ firstneigh = [a \in LocalAtoms |-> <<>>]
    /\ newton_pair = TRUE
    /\ max_rad = [sht \in Shapes |-> R(1)]
    /\ pc = "setup" /\ ii = 0 /\ jj = 0
    /\ delvec = zero3 /\ kk_count = -1 /\ candidates_found = FALSE
    /\ vol_overlap = R(0) /\ iforce = zero3 /\ torsum = zero3
    /\ fpair = R(0) /\ pn = R(0) /\ pen_types = <<1, 1>>
    /\ xcont = zero3 /\ tor_a = zero3
    /\ kk = 0 /\ ll = 0 /\ rings_missed = {} /\ cap_abscissa = R(0)
    /\ f_pre = f /\ torque_pre = torque
    /\ InitCoeff /\ InitCatalog /\ InitContact /\ InitShapeTables

NextContact == ProcessArgs \/ CheckContact

SpecContact == InitShapes /\ [][NextContact]_vars

\* read_sh_coeffs on one coefficient file
NextReader == ReadBegin \/ ReadRecord \/ ReadEnd

SpecReader == InitShapes /\ [][NextReader]_vars

\* the index computations of the routines that use the coefficient table
NextLayout == LayoutLookup

SpecLayout == InitShapes /\ [][NextLayout]_vars

\* getI for a catalog of one or two shapes
NextInertia == InertiaBegin \/ InertiaShape \/ InertiaEnd

SpecInertia == InitShapes /\ [][NextInertia]_vars

\* calls of the three Legendre routines
NextLegendre == CallPlegendre \/ CallPlegendreNN \/ CallPlegendreRecycle

SpecLegendre == InitShapes /\ [][NextLegendre]_vars

\* the state process_args leaves behind for two shapes, and two particles
\* in contact for PairSH::compute
InitOracle ==
    /\ x = [a \in Atoms |-> IF a = 1 THEN <<R(3), R(0), R(0)>>
                             ELSE <<R(1), R(0), R(0)>>]
    /\ max_rad = [sht \in Shapes |-> IF sht = 0 THEN R(MaxRad) ELSE R(1)]
    /\ firstneigh = [a \in LocalAtoms |-> IF a = 0 THEN <<1>> ELSE <<>>]
    /\ newton_pair = TRUE
    /\ InitPair /\ CoeffDone /\ InitContact /\ InitExpand
    /\ nshtypes = 2 /\ bcast_done = TRUE
    /\ expfacts = [rk \in Ranks |-> [sht \in Shapes |->
                     ExpFactsOfShape([n \in 0..(maxshexpan - 1) |-> R(2)])]]
    /\ shcoeffs = [sht \in Shapes |-> [e \in Slots |-> R(e + 1 + sht)]]
    /\ rd_pc = "eof" /\ rd_shape = 1 /\ rd_records = <<>> /\ rd_oob = FALSE
    /\ in_pc = "done" /\ in_sht = 2
    /\ eigvals = [sht \in Shapes |-> <<R(0), R(1), R(1)>>]
    /\ pinertia = [sht \in Shapes |-> <<R(0), R(1), R(1)>>]
    /\ InitLayout /\ InitLegendre /\ InitBuffers /\ InitLate

\* any sequence of calls once process_args has returned
NextOracle == Next \/ OracleRadius \/ OracleContact \/ GetCoefficients \/ DoRotate

SpecOracle == InitOracle /\ [][NextOracle]_vars

\* the bisection of calc_force_torque at one quadrature node
NextBisect == BisectBegin \/ BisectStep \/ BisectEnd

SpecBisect == InitShapes /\ [][NextBisect]_vars

\* NStencilFullMulti3d::create for one bin geometry
NextStencil == StencilBegin \/ StencilType \/ StencilEnd

SpecStencil == InitShapes /\ [][NextStencil]_vars

\* the oracle loops, one call after another
NextRolling == BufferBegin \/ BufferDegree \/ BufferEnd

SpecRolling == InitShapes /\ [][NextRolling]_vars

\* doRotate for one set of angles after another
NextRotate == RotateBegin \/ WignerStep \/ PhaseStep \/ RotateEnd

SpecRotate == InitShapes /\ [][NextRotate]_vars

\* ComputeShcoeff reading its first coefficient file
NextShcoeff == ShcoeffBegin \/ ShcoeffLine \/ ShcoeffEof

SpecShcoeff == InitShapes /\ [][NextShcoeff]_vars

\* calcexpansionfactors_gauss for a catalog of one or two shapes
NextExpand == ExpandBegin \/ ExpandShape \/ ExpandEnd

SpecExpand == InitShapes /\ [][NextExpand]_vars

----------------------------------------------------------------------------
(* Properties of PairSH::compute (specification Spec) *)

\* positions of compute at which a pair (CurI, CurJ) is being or has just
\* been evaluated
PairPcs == {"refine", "calc", "rejected", "nocontact", "applied", "error"}

TrueSeparation == sub3(x[CurI], x[CurJ])

TrueRsq == lensq3(TrueSeparation)

RadI == max_rad[shtype(CurI)]

RadJ == max_rad[shtype(CurJ)]

AllRings == 0..(num_pole_quad - 1)

\* C1: the separation vector used for every pair is x_i - x_j (it is negated
\* once the pair has passed the bounding-sphere and centre tests), whatever
\* neighbours of i were processed before j.
C1_SeparationIsXiMinusXj ==
    /\ pc \in {"rejected", "error"} => delvec = TrueSeparation
    /\ pc \in {"refine", "calc", "nocontact", "applied"} =>
          delvec = negate3(TrueSeparation)

\* C2: a pair whose true centre distance is >= max_rad[i] + max_rad[j] is
\* rejected: no error, no refine_cap_angle, no calc_force_torque, and f and
\* torque stay as they were.
C2_BoundingSphereReject ==
    (pc \in PairPcs /\ ~InBoundingSpheres(TrueRsq, RadI, RadJ)) =>
        /\ pc = "rejected"
        /\ f = f_pre
        /\ torque = torque_pre

\* C3: a pair that passes the bounding-sphere test while the true centre
\* distance is not greater than max_rad of particle B ends in the error,
\* before any cap refinement and with no force or torque added.
C3_CentreInsideIsError ==
    (pc \in PairPcs \ {"rejected"} /\ ~CapUsable(TrueRsq, RadJ)) =>
        /\ pc = "error"
        /\ f = f_pre
        /\ torque = torque_pre

C5_NoContactIsZero ==
    (pc \in {"nocontact", "calc", "applied"} /\ rings_missed = AllRings) =>
        /\ pc = "nocontact"
        /\ kk_count = -1
        /\ ~candidates_found
        /\ vol_overlap = R(0) /\ iforce = zero3 /\ torsum = zero3
        /\ f = f_pre
        /\ torque = torque_pre

C5_Witness ==
    /\ pc = "nocontact"
    /\ rings_missed = AllRings
    /\ jj = 1
    /\ f[CurI] # zero3

\* C6: when the N3L branch is taken the force added to j is the negative of
\* the force added to i, so f[i] + f[j] is unchanged; when it is not taken
\* f[j] and torque[j] are unchanged.
C6_NewtonThirdLaw ==
    pc = "applied" =>
        IF newton_pair \/ CurJ \in LocalAtoms
        THEN /\ f[CurI] = add3(f_pre[CurI], iforce)
             /\ f[CurJ] = sub3(f_pre[CurJ], iforce)
             /\ add3(f[CurI], f[CurJ]) = add3(f_pre[CurI], f_pre[CurJ])
        ELSE /\ f[CurJ] = f_pre[CurJ]
             /\ torque[CurJ] = torque_pre[CurJ]

C6_Witness ==
    /\ pc = "applied"
    /\ ~newton_pair
    /\ CurJ \in LocalAtoms
    /\ iforce # zero3

\* C7: when the force on particle a is exactly zero at the N3L step, the
\* torque on particle b is skipped: torque[j] is unchanged.
C7_ZeroForceSkipsTorqueOnB ==
    (pc = "applied" /\ iforce = zero3) => torque[CurJ] = torque_pre[CurJ]

\* C8 as claimed: x_c = x_A + (tau_A x F_A)/|F_A|^2 and the torque added to
\* j is F_A x (x_c - x_B).
C8_ContactPointAsClaimed ==
    (pc = "applied" /\ (newton_pair \/ CurJ \in LocalAtoms) /\ iforce # zero3) =>
        /\ xcont = add3(x[CurI], scale3(RInv(lensq3(iforce)), cross3(tor_a, iforce)))
        /\ torsum = cross3(iforce, sub3(xcont, x[CurJ]))
        /\ torque[CurJ] = add3(torque_pre[CurJ], torsum)

\* C8 as amended: x_c = x_A - (tau_A x F_A)/|F_A|^2, that is
\* x_A + (F_A x tau_A)/|F_A|^2, and the torque added to j is F_A x (x_c - x_B).
C8_ContactPointSwapped ==
    (pc = "applied" /\ (newton_pair \/ CurJ \in LocalAtoms) /\ iforce # zero3) =>
        /\ xcont = sub3(x[CurI], scale3(RInv(lensq3(iforce)), cross3(tor_a, iforce)))
        /\ xcont = add3(x[CurI], scale3(RInv(lensq3(iforce)), cross3(iforce, tor_a)))
        /\ torsum = cross3(iforce, sub3(xcont, x[CurJ]))
        /\ torque[CurJ] = add3(torque_pre[CurJ], torsum)

C8_Witness ==
    /\ pc = "applied"
    /\ CurJ \in GhostAtoms /\ newton_pair
    /\ iforce # zero3
    /\ cross3(tor_a, iforce) # zero3
    /\ IsFinite3(torque[CurJ])

----------------------------------------------------------------------------
(* Properties of pair_coeff / init_one (specification SpecCoeff) *)

SortedPair(tp) == IF tp[1] <= tp[2] THEN tp ELSE <<tp[2], tp[1]>>

\* C9: for types i # j whose stiffness pair_coeff has set, the penalty of a
\* contacting pair is exponent * k_ij * V^(exponent - 1) with that k_ij.
C9_StiffnessOfPairIsUsed ==
    (/\ pc = "penalty"
     /\ pen_types[1] # pen_types[2]
     /\ coeff_k[SortedPair(pen_types)] # Unset) =>
        pn = RMul(RMul(R(exponent), coeff_k[SortedPair(pen_types)]),
                  RPow(vol_overlap, exponent - 1))

----------------------------------------------------------------------------
(* Properties of check_contact (specification SpecContact) *)

RECURSIVE PartialRadius(_, _)
PartialRadius(terms, n) ==
    IF n = 0 THEN terms[0] ELSE RAdd(PartialRadius(terms, n - 1), terms[n])

\* the degrees at which the expanded partial radius is below the distance
FailingDegrees ==
    {n \in Degrees :
        RLess(RMul(expfacts[cc_rank][cc_sht][n], PartialRadius(cc_terms, n)), outerdist)}

MinOf(S) == CHOOSE m \in S : \A o \in S : m <= o

\* C10: check_contact returns false at the smallest degree n with
\* d > expfacts[n] r_n, having accumulated no higher degree; it returns true
\* exactly when there is no such n and d <= r_nmax; the output radius is
\* r_nmax when it returns true and is not written when it returns false.
C10_ContactDecision ==
    cc_pc = "done" =>
        /\ FailingDegrees # {} =>
              /\ cc_ret = 0
              /\ cc_n = MinOf(FailingDegrees)
              /\ rad_val = PartialRadius(cc_terms, MinOf(FailingDegrees))
        /\ cc_ret = 1 <=>
              /\ FailingDegrees = {}
              /\ RLeq(outerdist, PartialRadius(cc_terms, maxshexpan))
        /\ cc_ret = 1 => finalrad = PartialRadius(cc_terms, maxshexpan)
        /\ cc_ret = 0 => finalrad = Unset

\* the expansion factors the call of check_contact read
CcExpFacts == expfacts[cc_rank][cc_sht]

\* expfacts[n_max] = 1 and expfacts[n] r_n >= r_(n_max) in the direction asked
ExpFactsBoundFullRadius ==
    /\ CcExpFacts[maxshexpan] = R(1)
    /\ \A n \in Degrees :
          RLeq(GetShapeRadius(cc_terms), RMul(CcExpFacts[n], PartialRadius(cc_terms, n)))

\* C11: when expfacts[n_max] = 1 and expfacts[n] r_n >= r_(n_max) for every
\* degree n in the direction asked, check_contact answers as the single
\* full-degree test d <= r_(n_max) (get_shape_radius) does.
C11_EarlyExitIsSound ==
    (cc_pc = "done" /\ ExpFactsBoundFullRadius) =>
        /\ cc_ret = 1 <=> RLeq(outerdist, GetShapeRadius(cc_terms))
        /\ cc_ret = 1 => finalrad = GetShapeRadius(cc_terms)

\* an early exit below the full degree, with a partial radius that would
\* have admitted the point
C11_Witness ==
    /\ cc_pc = "done" /\ ExpFactsBoundFullRadius
    /\ cc_ret = 0 /\ cc_n < maxshexpan /\ cc_n > 0
    /\ RLeq(outerdist, cc_terms[0])
    /\ \E n \in Degrees : RLess(R(1), CcExpFacts[n])

----------------------------------------------------------------------------
(* Properties of calcexpansionfactors_gauss (specification SpecExpand) *)

\* the shapes the loop over sht has finished
ExpandedShapes == {sht \in Shapes : ex_pc \in {"run", "done"} /\ sht < ex_sht}

\* r_n(k): the partial sum through degree n of shape sht at grid point k
RECURSIVE GridRadius(_, _, _)
GridRadius(sht, n, k) ==
    IF n = 0 THEN grid_terms[sht][0][k]
    ELSE RAdd(GridRadius(sht, n - 1, k), grid_terms[sht][n][k])

\* C12: after calcexpansionfactors_gauss, for every shape, every degree n
\* and every grid point k, expfacts[n] r_n(k) >= r_(n_max)(k), for any
\* coefficient values.
C12_ExpFactsBoundOnGrid ==
    \A sht \in ExpandedShapes : \A n \in Degrees : \A k \in GridPoints :
        RLeq(GridRadius(sht, maxshexpan, k),
             RMul(expfacts[0][sht][n], GridRadius(sht, n, k)))

\* C13: for every shape of the catalog, the second and later ones included,
\* expfacts[0] >= expfacts[1] >= ... >= expfacts[n_max] and expfacts[n_max] = 1.
C13_ExpFactsMonotone ==
    \A sht \in ExpandedShapes :
        /\ expfacts[0][sht][maxshexpan] = R(1)
        /\ \A n \in 0..(maxshexpan - 1) :
              RLeq(expfacts[0][sht][n + 1], expfacts[0][sht][n])

\* a second shape whose factors grow strictly, after a first shape whose
\* ratios left larger values in the scratch vectors
C13_Witness ==
    /\ ex_pc = "done" /\ ex_sht = 2
    /\ RLess(R(1), expfacts[0][1][0]) /\ IsFinite(expfacts[0][1][0])
    /\ RLess(expfacts[0][1][0], expfacts[0][0][0])
    /\ \E k \in GridPoints : RLess(ratios[k], R(1))

\* C14: for every shape and every grid point k, max_rad[shape] is at least
\* the full-degree radius r_(n_max)(k).
C14_MaxRadBoundsGrid ==
    \A sht \in ExpandedShapes : \A k \in GridPoints :
        RLeq(GridRadius(sht, maxshexpan, k), max_rad[sht])

\* the largest radius is at the first grid point, a smaller one comes after
C14_Witness ==
    /\ ex_pc = "done" /\ ex_sht = 2
    /\ max_rad[1] = GridRadius(1, maxshexpan, 0)
    /\ RLess(GridRadius(1, maxshexpan, 1), max_rad[1])
    /\ RLess(max_rad[1], max_rad[0])

----------------------------------------------------------------------------
(* Properties of the catalog on all ranks (specification SpecContact) *)

\* C15: after process_args has run on all ranks, expfacts[shape][n] on every
\* rank equals the value of rank 0, for every shape in 0..nshtypes-1 and
\* every n in 0..n_max.
C15_CatalogSameOnAllRanks ==
    bcast_done =>
        \A rk \in Ranks : \A sht \in Shapes : \A n \in Degrees :
            sht < nshtypes => expfacts[rk][sht][n] = expfacts[0][sht][n]

----------------------------------------------------------------------------
(* Properties of read_sh_coeffs (specification SpecReader) *)

\* the coefficients of the shape being read as the records say they should
\* be: a record with 0 <= m <= n <= n_max is stored at loc(n, m), the first
\* record with n > n_max ends the reading, everything else is skipped
RECURSIVE IngestExpected(_, _, _)
IngestExpected(recs, i, row) ==
    IF i > Len(recs) \/ recs[i].n > maxshexpan THEN row
    ELSE LET rec == recs[i]
             loc == rec.n * (rec.n + 1) + 2 * (rec.n - rec.m)
         IN  IF 0 <= rec.m /\ rec.m <= rec.n
             THEN IngestExpected(recs, i + 1,
                      [row EXCEPT ![loc] = rec.re, ![loc + 1] = rec.im])
             ELSE IngestExpected(recs, i + 1, row)

\* C17: after read_sh_coeffs has read into a zeroed shape, every record with
\* 0 <= m <= n <= n_max before the first record with n > n_max is stored at
\* loc(n, m) (the last one winning), records with m < 0 and records at or
\* after the first n > n_max change nothing, every other slot stays 0.
C17_IngestStoresAcceptedRecords ==
    rd_pc \in {"reading", "stopped", "eof"} =>
        /\ shcoeffs[rd_shape] = IngestExpected(rd_records, 1, [e \in Slots |-> R(0)])
        /\ ~rd_oob

----------------------------------------------------------------------------
(* Properties of the coefficient layout (specification SpecLayout) *)

LayoutPairs == {nm \in LayoutDegrees \X LayoutDegrees : nm[2] <= nm[1]}

LayoutSize == (MaxLayoutDegree + 1) * (MaxLayoutDegree + 2)

\* C18: loc(n,m) = n(n+1) + 2(n-m) maps the pairs 0 <= m <= n <= n_max
\* one-to-one onto the even indices of 0..(n_max+1)(n_max+2)-1, and the reader,
\* the radius loops (with their hard-coded n = 1 and n = 2 indices),
\* get_coefficients and doRotate (input lookup for |m'| and output store) all
\* address the real part of a_{n,m} at loc(n,m), the imaginary part following.
C18_OneLayoutEverywhere ==
    lk_pc = "looked" =>
        LET loc == lk_n * (lk_n + 1) + 2 * (lk_n - lk_m)
        IN  /\ lk_loc.reader = loc
            /\ lk_loc.radius = loc
            /\ lk_loc.coefficients = loc
            /\ lk_loc.rotate_out = loc
            /\ lk_loc.rotate_in = lk_n * (lk_n + 1) + 2 * (lk_n - Abs(lk_mp))
            /\ loc % 2 = 0 /\ 0 <= loc /\ loc + 1 <= LayoutSize - 1
            /\ \A nm \in LayoutPairs :
                 nm[1] * (nm[1] + 1) + 2 * (nm[1] - nm[2]) = loc
                     => nm = <<lk_n, lk_m>>
            /\ \A e \in 0..(LayoutSize - 1) : e % 2 = 0 =>
                 \E nm \in LayoutPairs :
                     nm[1] * (nm[1] + 1) + 2 * (nm[1] - nm[2]) = e

C18_Witness ==
    /\ lk_pc = "looked" /\ lk_n = 2 /\ lk_m = 1 /\ lk_mp = -2
    /\ lk_loc.radius = 8 /\ lk_loc.rotate_in = 6

----------------------------------------------------------------------------
(* Properties of getI (specification SpecInertia) *)

LargestOf(inertia) ==
    CHOOSE v \in {inertia[1], inertia[2], inertia[3]} :
        \A k \in 1..3 : RLeq(inertia[k], v)

\* C19: for any three eigenvalues returned by the Jacobi routine, every
\* stored principal moment is >= 0, every eigenvalue smaller than 1e-7 times
\* the largest eigenvalue is stored as 0, and every other one is stored
\* unchanged.
C19_PrincipalInertiaClamped ==
    \A sht \in Shapes : in_pc \in {"loop", "done"} /\ sht < in_sht =>
        \A k \in 1..3 :
            LET e == eigvals[sht][k]
                small == RLess(e, RMul(<<1, 10000000>>, LargestOf(eigvals[sht])))
            IN  /\ RLeq(R(0), pinertia[sht][k])
                /\ small => pinertia[sht][k] = R(0)
                /\ ~small => pinertia[sht][k] = e

C19_Witness ==
    /\ in_pc = "done" /\ in_sht = 2
    /\ eigvals[0] = <<R(-1), R(1), R(20000000)>>
    /\ pinertia[0] = <<R(0), R(0), R(20000000)>>
    /\ eigvals[1] = <<R(1), R(-1), R(10000000)>>
    /\ pinertia[1] = <<R(1), R(0), R(10000000)>>

----------------------------------------------------------------------------
(* Properties of the Legendre routines (specification SpecLegendre) *)

\* the arguments of the last call satisfy 0 <= m <= n and |x| <= 1
LegendreDomain ==
    /\ 0 <= lg_m /\ lg_m <= lg_l
    /\ RLeq(RAbs(lg_x), R(1))

\* C20: each of plegendre, plegendre_nn and plegendre_recycle fails with a
\* domain error whenever its arguments violate 0 <= m <= n or |x| <= 1, and
\* returns a finite value otherwise.
C20_LegendreDomainChecks ==
    lg_fn # "none" =>
        IF LegendreDomain THEN lg_out \in FiniteClasses ELSE lg_out = "error"

----------------------------------------------------------------------------
(* Properties of the built catalog (specification SpecOracle) *)

CatalogTables == <<shcoeffs, expfacts, max_rad, pinertia, nshtypes>>

----------------------------------------------------------------------------
(* Index ranges (specifications Spec and SpecReader) *)

\* C26: for every outcome of refine_cap_angle, the kk_count that compute
\* passes to calc_force_torque, and that calc_force_torque uses as
\* abscissa[kk_count], lies in 0..num_pole_quad-1, the index range of the
\* abscissa array.
C26_QuadratureIndexInRange ==
    pc \in {"calc", "applied"} =>
        /\ 0 <= kk_count /\ kk_count <= num_pole_quad - 1
        /\ pc = "applied" => cap_abscissa = Abscissa(kk_count)

\* the records read_sh_coeffs has stored: those before the first record with
\* n > n_max whose m is not negative
RECURSIVE StoredRecords(_, _)
StoredRecords(recs, i) ==
    IF i > Len(recs) \/ recs[i].n > maxshexpan THEN {}
    ELSE (IF recs[i].m >= 0 THEN {recs[i]} ELSE {}) \cup StoredRecords(recs, i + 1)

\* C27: for every record (n, m) that read_sh_coeffs accepts (not rejected by
\* the n > n_max stop or the m < 0 skip, records with m > n included), both
\* indices it writes, n(n+1)+2(n-m) and that plus 1, lie in
\* 0..(n_max+1)(n_max+2)-1 of the shape's coefficient row.
C27_CoefficientWritesInRange ==
    rd_pc # "idle" =>
        \A rec \in StoredRecords(rd_records, 1) :
            /\ 0 <= ReaderEntry(rec.n, rec.m)
            /\ ReaderEntry(rec.n, rec.m) + 1 <= (maxshexpan + 1) * (maxshexpan + 2) - 1

----------------------------------------------------------------------------
(* The exponent of pair_coeff (specification SpecCoeff) *)

\* C28: after any sequence of PairSH::coeff calls that all return without
\* error, every call was given the same exponent (a call whose exponent
\* differs from that of an earlier successful call fails), for every first
\* exponent value including -1.
C28_OneExponentForAllPairs ==
    pc # "error" => \A e1 \in coeff_exps, e2 \in coeff_exps : e1 = e2

----------------------------------------------------------------------------
(* Properties of the bisection (specification SpecBisect) *)

RECURSIVE Halved(_, _)
Halved(v, k) == IF k = 0 THEN v ELSE Halved(RDiv(v, R(2)), k - 1)

\* C23: the bisection starts with lower = 0 and upper = r_A, halves
\* upper - lower on every step whatever the contact test answers, keeps
\* 0 <= lower <= r_s <= upper <= r_A, stops once upper - lower is within
\* tol = radius_tol * max_rad(A), and with max_rad(A) = 1 and
\* radius_tol = 1e-3 performs at most 11 iterations.
C23_BisectionTerminates ==
    bs_pc \in {"loop", "done"} =>
        /\ bs_iter = 0 => lower_bound = R(0) /\ upper_bound = rad_body
        /\ RSub(upper_bound, lower_bound) = Halved(rad_body, bs_iter)
        /\ RLeq(R(0), lower_bound) /\ RLeq(lower_bound, rad_sample)
        /\ RLeq(rad_sample, upper_bound) /\ RLeq(upper_bound, rad_body)
        /\ radtol = RMul(<<1, 1000>>, bs_radi)
        /\ bs_pc = "done" => RLeq(RSub(upper_bound, lower_bound), radtol)
        /\ bs_radi = R(1) => bs_iter <= 11

C23_Witness ==
    /\ bs_pc = "done" /\ bs_radi = R(1) /\ rad_body = R(1)
    /\ bs_iter = 10
    /\ lower_bound # R(0) /\ upper_bound # rad_body

----------------------------------------------------------------------------
(* Properties of NStencilFullMulti3d::create (specification SpecStencil) *)

\* the triples of the stencil box whose bin distance is below the cutoff of t
StencilTriples(t) ==
    {q \in ((-sx)..sx) \X ((-sy)..sy) \X ((-sz)..sz) :
        BinGap(q[1]) * BinGap(q[1]) + BinGap(q[2]) * BinGap(q[2])
            + BinGap(q[3]) * BinGap(q[3]) < cuttypesq[t]}

OffsetOf(q) == q[3] * mbiny * mbinx + q[2] * mbinx + q[1]

----------------------------------------------------------------------------
(* Properties of ComputeShcoeff::read_coeffs (specification SpecShcoeff) *)

\* C21: a data line that does not have exactly four fields, and is neither
\* the single-integer header nor a comment line, makes the read fail with a
\* parse error, and no coefficient is stored from that line; comment lines
\* and the header store nothing and raise no error.
C21_MalformedLinesAreErrors ==
    [][(rc_pc = "reading" /\ rc_pc' # "eof") =>
          /\ rc_line'.kind \in {"short", "long"} =>
                rc_pc' = "error" /\ array' = array /\ curentry' = curentry
          /\ (rc_line'.kind = "comment"
                \/ (rc_line'.kind = "header" /\ rc_line'.val <= size_array_cols)) =>
                rc_pc' = "reading" /\ array' = array /\ curentry' = curentry]_vars

\* C22: when a file supplies more coefficient values than the capacity
\* (n_max+1)(n_max+2) of a row, whether or not its header announces that,
\* reading fails with an overflow error and no value is ever written at an
\* index >= the capacity of the shape's row.
C22_OverflowIsError ==
    /\ curentry <= size_array_cols
    /\ ~rc_oob
    /\ \A e \in DOMAIN array : e >= size_array_cols => array[e] = Unset

----------------------------------------------------------------------------
(* Properties of AtomVecSpherharm::doRotate (specification SpecRotate) *)

\* C24: for every degree n and every pair of orders (m', m) the term added
\* to the output coefficient a'_{n,m} is exp(i m' alpha) d^n_{m',m}(beta)
\* exp(i m gamma) a_{n,m'}: alpha is multiplied by m', gamma by m, and
\* a_{n,m'} for m' < 0 is (-1)^|m'| times the conjugate of the stored
\* a_{n,|m'|}.
C24_RotationPhaseFactors ==
    \A t \in aa :
        /\ t.alpha = t.mp
        /\ t.gamma = t.m
        /\ t.d = <<t.n, t.mp, t.m>>
        /\ t.mloc = RotateLookupLoc(t.n, t.mp)
        /\ t.conj = (t.mp < 0)
        /\ t.sign = (IF t.mp < 0 /\ Abs(t.mp) % 2 = 1 THEN -1 ELSE 1)

\* C30: in the recursion of doRotate every element of degree n-1 read at a
\* second-index order outside -(n-1)..(n-1) has a coefficient that is exactly
\* zero, the first-index order read lies in -(n-1)..(n-1), and no
\* coefficient has a zero denominator.
C30_RecursionReadsDefinedEntries ==
    \A k \in DOMAIN rt_reads :
        LET r == rt_reads[k]
        IN  /\ Abs(r.second) > r.n - 1 => r.num = 0
            /\ Abs(r.first) <= r.n - 1
            /\ r.den # 0

C30_Witness ==
    /\ rt_reads # <<>>
    /\ rt_reads[1].n = 2 /\ rt_reads[1].m = -2 /\ rt_reads[1].mp = 2
    /\ Abs(rt_reads[2].second) > 1
    /\ rt_reads[2].num = 0

----------------------------------------------------------------------------
(* Properties of the rolling Legendre buffers (specification SpecRolling) *)

\* C25: at the start of processing every degree n >= 3, for every order m in
\* 0..n-2, Pnm_m1[m] holds P_{n-1,m} and Pnm_m2[m] holds P_{n-2,m}, Pnm_nn
\* holds P_{n-1,n-1}; plegendre_recycle is called only with 0 <= m <= n-2;
\* no buffer index above n_max is read or written.
C25_RollingBuffers ==
    /\ (pb_pc = "loop" /\ pb_n >= 3 /\ pb_n <= pb_nmax) =>
          /\ \A e \in 0..(pb_n - 2) :
                Pnm_m1[e] = <<pb_n - 1, e>> /\ Pnm_m2[e] = <<pb_n - 2, e>>
          /\ pb_nn = <<pb_n - 1, pb_n - 1>>
    /\ \A c \in pb_calls :
          /\ 0 <= c.m /\ c.m <= c.l - 2
          /\ c.pnm_m1 = <<c.l - 1, c.m>> /\ c.pnm_m2 = <<c.l - 2, c.m>>
    /\ ~pb_oob

C25_Witness ==
    /\ pb_pc = "loop" /\ pb_n = 4 /\ pb_n <= pb_nmax
    /\ pb_fn = "check_contact"
    /\ \E c \in pb_calls : c.l = 3 /\ c.m = 1
    /\ Pnm_m2[2] = <<2, 2>>

====
